---- MODULE Spec2Model ----
(***************************************************************************)
(* miniboss: one run of ServiceCollection.start_all / stop_all.            *)
(*                                                                         *)
(* The driver thread polls the RunningContext and spawns one ServiceAgent  *)
(* thread per ready service; every agent thread executes its START or STOP *)
(* action and reports to the RunningContext.  Services are numbered in     *)
(* registry (dict insertion) order; thread t is the thread of the agent of *)
(* service t.                                                              *)
(*                                                                         *)
(* LoadSpec is the ServiceCollection before a run: load_definitions with   *)
(* its cycle check, exclude_for_start, update_for_base_service and the     *)
(* two collections of reload_service, over service definitions whose       *)
(* dependencies are ordered lists of names; exclude_for_stop as well.      *)
(*                                                                         *)
(* FairSpec is the runs on a fresh engine with threads that are scheduled. *)
(* ConnectSpec is connect_services over services given by name, AgentSpec  *)
(* the action property of a ServiceAgent and its run() without an action,  *)
(* ContextSpec the Context with its file, EngineSpec the STOP actions of   *)
(* services with names, over the containers the engine finds by name.      *)
(* BuildSpec is the START action up to the creation of the container, for  *)
(* services with an image and a build directory.                           *)
(* PingSpec is ServiceAgent.ping() with the monotonic clock.               *)
(***************************************************************************)
EXTENDS Integers, Sequences, FiniteSets, TLC

\* Number of unsuccessful service.ping() calls that fit into options.timeout
\* (one every 100 ms).
MaxPings == 2

\* AgentStatus (types.py)
NULL == "null"
IN_PROGRESS == "in-progress"
STARTED == "started"
FAILED == "failed"
STOPPED == "stopped"

\* RunCondition actions and states (types.py); NULL, STARTED and FAILED have
\* the same string values as in AgentStatus.
START == "start"
PRE_START == "pre-start"
POST_START == "post-start"
PING == "ping"
BUILD_IMAGE == "build-image"
RUNNING == "running"

\* Actions (types.py); Actions.START has the string of RunCondition.START.
STOP == "stop"

\* The runs that are checked: a registry (the dependencies of service i are
\* the i-th element; a dependency may name a service defined later) and the
\* service of it that meets every answer of the engine (0: none does).
\* The services of twice name each of their dependencies twice in their
\* list of dependencies.
Repeating(deps, d, twice) == [deps |-> deps, detailed |-> d, twice |-> twice]

Scenario(deps, d) == Repeating(deps, d, {})

Scenarios ==
    { Scenario(<< {} >>, 1),
      Scenario(<< {}, {} >>, 0),
      Scenario(<< {}, {} >>, 1),
      Scenario(<< {2}, {} >>, 1),
      Scenario(<< {2}, {} >>, 2),
      Repeating(<< {}, {1} >>, 0, {2}),
      Scenario(<< {}, {}, {2} >>, 0),
      Scenario(<< {}, {1}, {2} >>, 1),
      Scenario(<< {}, {1}, {2} >>, 2),
      Scenario(<< {}, {}, {1, 2} >>, 0),
      Scenario(<< {}, {}, {1, 2} >>, 1),
      Scenario(<< {}, {1}, {1, 2} >>, 1),
      Scenario(<< {}, {1}, {1, 2}, {1} >>, 0),
      Scenario(<< {}, {1}, {1, 2}, {1} >>, 1),
      Scenario(<< {}, {1}, {1}, {2, 3} >>, 0),
      Scenario(<< {}, {1}, {1}, {2, 3} >>, 1) }

\* The engine statuses of a container that existing_on_network reports.
ExistingStatuses == {"running", "exited", "created"}

VARIABLES
    run,                \* "start_all" or "stop_all"; "none" without a run
    remove,             \* options.remove
    dependencies,       \* service -> set of services (Service.dependencies)
    detailed,           \* the service that meets every answer of the engine
    agent_set,          \* RunningContext.agent_set (keys)
    processed_services, \* RunningContext.processed_services
    failed_services,    \* RunningContext.failed_services
    service_pop_lock,   \* 0 when free, else the thread holding it
    lock_calls,         \* times the lock was taken, by service and caller
    status,             \* ServiceAgent.status
    state,              \* ServiceAgent.run_condition.state
    actions,            \* ServiceAgent.run_condition.actions
    open_dependencies,  \* ServiceAgent.open_dependencies (a list)
    open_dependants,    \* ServiceAgent.open_dependants (a list)
    pc,                 \* position of each agent thread
    ret,                \* call site of the _fail() a thread is executing
    frames,             \* stack of service_failed calls of each thread
    pings,              \* unsuccessful pings of the current ping() call
    containers,         \* engine: containers with the service's prefix
    existing_seen,      \* statuses of the existings reported to run_image
    reuse_case,         \* what _start_existing compared for an exited one
    calls,              \* engine calls and hooks each agent has invoked
    raised,             \* a step of the START action raised or timed out
    driver,             \* position of the driver thread
    result,             \* return value of start_all / stop_all
    network_removed,    \* stop_all has called remove_network
    action,             \* ServiceAgent._action
    services,           \* the defined services: their dependency lists
    collection,         \* ServiceCollection.all_by_name (keys, in order)
    excluded,           \* ServiceCollection.excluded
    service_name,       \* argument of update_for_base_service / reload;
                        \* the agent, or the directory, of the last call
    exception,          \* the exception the last call raised
    stop_agents,        \* services given an agent by stop_all
    start_agents,       \* services given an agent by start_all
    load_pc,            \* the last call made on the collection, or on
                        \* an agent, or on the Context
    definitions,        \* the services given to connect_services
    connected,          \* what connect_services raised, set and returned
    context,            \* the Context: its keys and their values
    files,              \* the context file of each directory, or none
    saved,              \* the Context each context file was written from
    options,            \* the Options of the STOP actions on the engine
    on_network,         \* engine: the containers on the network, by name
    engine_calls,       \* engine: the calls of the STOP actions, in order
    monotonic           \* time.monotonic(), and what ping() has read of it

vars == << run, remove, dependencies, detailed, agent_set, processed_services,
           failed_services, service_pop_lock, lock_calls, status, state,
           actions,
           open_dependencies, open_dependants, pc, ret, frames, pings,
           containers, existing_seen, reuse_case, calls, raised, driver,
           result, network_removed, action, services, collection, excluded,
           service_name, exception, stop_agents, start_agents, load_pc,
           definitions, connected, context, files, saved, options,
           on_network, engine_calls, monotonic >>

ctxVars == << agent_set, processed_services, failed_services,
              service_pop_lock, lock_calls, open_dependencies,
              open_dependants >>
driverVars == << driver, result, network_removed, action >>
loadVars == << services, collection, excluded, service_name, exception,
              stop_agents, start_agents, load_pc >>
stopVars == << options, on_network, engine_calls >>
unitVars == << definitions, connected, context, files, saved, stopVars,
              monotonic >>
cfgVars == << run, remove, dependencies, detailed, loadVars, unitVars >>
condVars == << state, actions >>
engineVars == << containers, existing_seen, reuse_case, calls >>

----------------------------------------------------------------------------
\* Registry

Registry == DOMAIN dependencies

\* all_by_name.keys(), in insertion order
all_by_name == [i \in Registry |-> i]

\* connect_services: the reverse edges.  connect_services stores them in
\* service._dependants and ServiceAgent.__init__ reads service.dependants;
\* the two are taken to be the one attribute, as the unit tests take them.
dependants(s) == {x \in Registry : s \in dependencies[x]}

\* the keys of a sub-dict, in insertion order
Keys(S) == SelectSeq(all_by_name, LAMBDA x : x \in S)

\* The environment of a run: one service, detailed, meets every answer the
\* engine and the hooks can give.  Every other service meets a fresh engine:
\* no image build is asked for, no container with its prefix exists when it
\* starts, its hooks and engine calls do not raise, and its ping either
\* succeeds at once or raises; when it is stopped it has one running
\* container.
Fresh(s) == s # detailed

Contains(seq, x) == \E i \in 1..Len(seq) : seq[i] = x

Range(seq) == {seq[i] : i \in 1..Len(seq)}

\* the names of a set, as a list in ascending order
RECURSIVE Sorted(_)
Sorted(S) ==
    IF S = {} THEN << >>
    ELSE LET least == CHOOSE x \in S : \A y \in S : x <= y
         IN  << least >> \o Sorted(S \ {least})

\* The value of an attribute that was not set
None == "None"

\* No call of connect_services, and no use of the Context
NoStops ==
    /\ options = << >>
    /\ on_network = << >>
    /\ engine_calls = << >>

NoClock == monotonic = << >>

NoUnits ==
    /\ NoClock
    /\ definitions = << >>
    /\ connected = << >>
    /\ context = << >>
    /\ files = << >>
    /\ saved = << >>
    /\ NoStops

\* Service.dependencies of service s in a run: a list of the services it
\* depends on
DependencyList(sc, s) ==
    IF s \in sc.twice THEN Sorted(sc.deps[s]) \o Sorted(sc.deps[s])
    ELSE Sorted(sc.deps[s])

----------------------------------------------------------------------------
\* RunningContext.__init__ and ServiceAgent.__init__

Init ==
    /\ run \in {"start_all", "stop_all"}
    /\ remove \in (IF run = "stop_all" THEN BOOLEAN ELSE {FALSE})
    /\ \E sc \in Scenarios :
         /\ dependencies = sc.deps
         /\ detailed = sc.detailed
         /\ open_dependencies = [s \in DOMAIN sc.deps |->
                                   DependencyList(sc, s)]
    /\ agent_set = DOMAIN dependencies
    /\ processed_services = << >>
    /\ failed_services = << >>
    /\ service_pop_lock = 0
    /\ lock_calls = [s \in DOMAIN dependencies |->
                       [service_failed |-> 0, service_done |-> 0]]
    /\ status = [s \in DOMAIN dependencies |-> NULL]
    /\ state = [s \in DOMAIN dependencies |-> NULL]
    /\ actions = [s \in DOMAIN dependencies |-> << >>]
    /\ open_dependants = [s \in DOMAIN dependencies |->
                            Sorted({x \in DOMAIN dependencies :
                                       s \in dependencies[x]})]
    /\ pc = [s \in DOMAIN dependencies |-> "idle"]
    /\ ret = [s \in DOMAIN dependencies |-> "none"]
    /\ frames = [s \in DOMAIN dependencies |-> << >>]
    /\ pings = [s \in DOMAIN dependencies |-> 0]
    /\ containers = [s \in DOMAIN dependencies |-> << >>]
    /\ existing_seen = [s \in DOMAIN dependencies |-> << >>]
    /\ reuse_case = [s \in DOMAIN dependencies |-> << >>]
    /\ calls = [s \in DOMAIN dependencies |-> << >>]
    /\ raised = [s \in DOMAIN dependencies |-> FALSE]
    /\ driver = "loop"
    /\ result = << >>
    /\ network_removed = FALSE
    /\ action = [s \in DOMAIN dependencies |-> None]
    /\ NoUnits
    /\ excluded \in (IF run = "stop_all"
                       THEN {<< >>, << Len(dependencies) + 1 >>}
                       ELSE {<< >>})
    /\ services = open_dependencies \o [i \in 1..Len(excluded) |-> << >>]
    /\ collection = [i \in DOMAIN dependencies |-> i]
    /\ service_name = 0
    /\ exception = "none"
    /\ stop_agents = IF run = "stop_all" THEN DOMAIN dependencies ELSE {}
    /\ start_agents = IF run = "start_all" THEN DOMAIN dependencies ELSE {}
    /\ load_pc = "run"

----------------------------------------------------------------------------
\* ServiceAgent properties and RunningContext getters

\* can_start without the test of the open dependencies
can_start_any(s) == status[s] = NULL

can_start(s) == open_dependencies[s] = << >> /\ status[s] = NULL

\* can_stop without the test of the open dependants
can_stop_any(s) == status[s] = NULL

can_stop(s) == open_dependants[s] = << >> /\ status[s] = NULL

ready_to_start == {s \in agent_set : can_start(s)}

ready_to_stop == {s \in agent_set : can_stop(s)}

done == agent_set = {}

Ready == IF run = "start_all" THEN ready_to_start ELSE ready_to_stop

\* the condition that ends the driver's while loop
LoopEnds ==
    IF run = "start_all" THEN done ELSE done \/ failed_services # << >>

\* The value start_all returns.
StartAllResult ==
    LET failed == Range(failed_services)
    IN  SelectSeq(all_by_name, LAMBDA x : x \notin failed)

----------------------------------------------------------------------------
\* The driver thread: the loops of start_all and stop_all

\* One pass of the loop: the loop condition, then start_service() or
\* stop_service() on every ready agent, in registry order, then the sleep.
\* Thread.start() raises RuntimeError for an agent whose thread was started
\* in an earlier pass and has not yet set its status; the exception leaves
\* start_all / stop_all.
DriverPoll ==
    /\ driver = "loop"
    /\ IF LoopEnds
         THEN /\ driver' = "after_loop"
              /\ UNCHANGED << pc, result, action >>
         ELSE LET again == {s \in Ready : pc[s] # "idle"}
                  fresh == IF again = {} THEN Ready
                           ELSE {s \in Ready : \A a \in again : s < a}
              IN  /\ pc' = [s \in Registry |->
                              IF s \in fresh THEN "spawned" ELSE pc[s]]
                  /\ action' = [s \in Registry |->
                                  IF s \in fresh
                                    THEN (IF run = "start_all"
                                            THEN START ELSE STOP)
                                    ELSE action[s]]
                  /\ driver' = IF again = {} THEN "loop" ELSE "crashed"
                  /\ result' = IF run = "stop_all"
                                 THEN result \o Keys(fresh)
                                 ELSE result
    /\ UNCHANGED << cfgVars, ctxVars, status, condVars, ret, frames, pings,
                    engineVars, raised, network_removed >>

\* the test of stop_all without the excluded services
RemovesNetworkAlways(rm, excl) == rm

\* stop_all: whether remove_network is called after the loop
RemovesNetwork(rm, excl) == rm /\ excl = << >>

\* After the loop: start_all computes its return value from
\* failed_services; stop_all removes the network when the options and the
\* exclusions say so and returns the names it collected.
DriverReturn ==
    /\ driver = "after_loop"
    /\ driver' = "returned"
    /\ result' = IF run = "start_all" THEN StartAllResult ELSE result
    /\ network_removed' = (run = "stop_all"
                             /\ RemovesNetwork(remove, excluded))
    /\ UNCHANGED action
    /\ UNCHANGED << cfgVars, ctxVars, status, condVars, pc, ret, frames,
                    pings, engineVars, raised >>

----------------------------------------------------------------------------
\* ServiceAgent: helpers of the START and STOP actions

Container(st, from) == [status |-> st, origin |-> from]

\* start_container building only the images named in options.build
NeedsBuildNamed(in_build, build_from, latest) == in_build

\* start_container: whether the image is built first
NeedsBuild(in_build, build_from, latest) ==
    in_build \/ (build_from /\ latest)

\* _start_existing: whether an exited container is replaced by a new one
StartNew(always_start_new, image_in_tags, diff_keys) ==
    always_start_new \/ ~image_in_tags \/ diff_keys

\* the test of run_image without RUNNING
SkipsCreateStartedOnly(st) == st = STARTED

\* run_image: after _start_existing, return without creating a container
SkipsCreate(st) == st \in {STARTED, RUNNING}

\* _fail: whether the containers are stopped and removed
StopsOnFail(acts) == Contains(acts, START)

\* _stop_container: the engine calls made for the containers found
RECURSIVE StopCalls(_, _)
StopCalls(existings, rm) ==
    IF existings = << >> THEN << >>
    ELSE (IF Head(existings).status = "running" THEN << "stop" >> ELSE << >>)
         \o (IF rm THEN << "remove" >> ELSE << >>)
         \o StopCalls(Tail(existings), rm)

\* _stop_container: the containers left on the network afterwards
AfterStop(existings, rm) ==
    IF rm THEN << >>
    ELSE [i \in 1..Len(existings) |->
            IF existings[i].status = "running"
              THEN Container("exited", existings[i].origin)
              ELSE existings[i]]

\* An exception raised inside run_image is caught in start_container, which
\* calls _fail().
CaughtPc == "_fail"

----------------------------------------------------------------------------
\* ServiceAgent.run

\* run(): the action is set by start_service / stop_service
Run(s) ==
    /\ pc[s] = "spawned"
    /\ status' = [status EXCEPT ![s] = IN_PROGRESS]
    /\ action[s] # None
    /\ pc' = [pc EXCEPT ![s] = IF action[s] = START THEN "start_container"
                                ELSE "stop_container"]
    /\ UNCHANGED << cfgVars, ctxVars, driverVars, condVars, ret, frames,
                    pings, engineVars, raised >>

\* start_container, up to the try: the image build is outside the try, an
\* exception of the build leaves run().
StartContainer(s) ==
    /\ pc[s] = "start_container"
    /\ \E in_build \in BOOLEAN, build_from \in BOOLEAN, latest \in BOOLEAN :
         /\ Fresh(s) => ~in_build /\ ~build_from
         /\ IF NeedsBuild(in_build, build_from, latest)
              THEN \/ /\ calls' = [calls EXCEPT ![s] =
                                      Append(@, "build_image")]
                      /\ raised' = [raised EXCEPT ![s] = TRUE]
                      /\ pc' = [pc EXCEPT ![s] = "dead"]
                      /\ UNCHANGED actions
                   \/ /\ calls' = [calls EXCEPT ![s] =
                                      Append(@, "build_image")]
                      /\ actions' = [actions EXCEPT ![s] =
                                        Append(@, BUILD_IMAGE)]
                      /\ pc' = [pc EXCEPT ![s] = "run_image"]
                      /\ UNCHANGED raised
              ELSE /\ pc' = [pc EXCEPT ![s] = "run_image"]
                   /\ UNCHANGED << calls, actions, raised >>
    /\ UNCHANGED << cfgVars, ctxVars, driverVars, status, state, ret, frames,
                    pings, containers, existing_seen, reuse_case >>

\* A value of Service.env: an int or a string, with the text str() gives it.
IntValue(text) == [type |-> "int", text |-> text]
StrValue(text) == [type |-> "str", text |-> text]

\* str(value)
Str(value) == value.text

\* differing_keys: the keys of specified whose value, as a string, is not the
\* value existing has for the key; existing.get(key) is None for a missing key
differing_keys(specified, existing) ==
    {key \in DOMAIN specified :
        \/ key \notin DOMAIN existing
        \/ Str(specified[key]) # existing[key]}

\* What _start_existing compares for an exited container: always_start_new,
\* whether service.image is among existing.image.tags, service.env and
\* container_env(existing).
ReuseCase(always, in_tags, env, existing_env) ==
    [always_start_new |-> always, image_in_tags |-> in_tags, env |-> env,
     existing_env |-> existing_env]

NoEnv == [key \in {} |-> ""]

ReuseCases ==
    { ReuseCase(FALSE, TRUE, [key \in {"K"} |-> IntValue("1")],
                             [key \in {"K"} |-> "1"]),
      ReuseCase(FALSE, TRUE, [key \in {"K"} |-> StrValue("1")],
                             [key \in {"K", "L"} |-> "1"]),
      ReuseCase(FALSE, TRUE, NoEnv, [key \in {"K"} |-> "1"]),
      ReuseCase(FALSE, TRUE, [key \in {"K"} |-> StrValue("2")],
                             [key \in {"K"} |-> "1"]),
      ReuseCase(FALSE, TRUE, [key \in {"K"} |-> IntValue("1")], NoEnv),
      ReuseCase(TRUE, TRUE, [key \in {"K"} |-> IntValue("1")],
                            [key \in {"K"} |-> "1"]),
      ReuseCase(FALSE, FALSE, [key \in {"K"} |-> IntValue("1")],
                              [key \in {"K"} |-> "1"]) }

\* What existing_on_network can report to run_image: _start_existing looks
\* at the first container only.
StartExistings ==
    { << Container(st, "existing") >> : st \in ExistingStatuses }
    \cup { << Container("exited", "existing"),
              Container("running", "existing") >>,
           << Container("running", "existing"),
              Container("exited", "existing") >> }

\* run_image up to the decision about the existing containers, with
\* _start_existing up to its ping.
RunImage(s) ==
    /\ pc[s] = "run_image"
    /\ \/ \* Context.extrapolate_values or existing_on_network raises
          /\ ~Fresh(s)
          /\ pc' = [pc EXCEPT ![s] = CaughtPc]
          /\ ret' = [ret EXCEPT ![s] = "handler"]
          /\ raised' = [raised EXCEPT ![s] = TRUE]
          /\ UNCHANGED << condVars, engineVars, pings >>
       \/ \* no existing container
          /\ containers' = [containers EXCEPT ![s] = << >>]
          /\ pc' = [pc EXCEPT ![s] = "create"]
          /\ UNCHANGED << condVars, existing_seen, reuse_case, calls, ret,
                          raised, pings >>
       \/ \E existings \in StartExistings :
            /\ ~Fresh(s)
            /\ existing_seen' = [existing_seen EXCEPT ![s] =
                  [i \in 1..Len(existings) |-> existings[i].status]]
            /\ IF existings[1].status = "running"
                 THEN \* already_running()
                      /\ state' = [state EXCEPT ![s] = RUNNING]
                      /\ containers' = [containers EXCEPT ![s] = existings]
                      /\ pc' = [pc EXCEPT ![s] =
                                  IF SkipsCreate(RUNNING) THEN "finish"
                                  ELSE "create"]
                      /\ UNCHANGED << actions, reuse_case, calls, ret, raised,
                                      pings >>
                 ELSE IF existings[1].status = "exited"
                 THEN \E case \in ReuseCases :
                      /\ reuse_case' = [reuse_case EXCEPT ![s] = << case >>]
                      /\ IF StartNew(case.always_start_new,
                                     case.image_in_tags,
                                     differing_keys(case.env,
                                                    case.existing_env) # {})
                        THEN /\ containers' = [containers EXCEPT ![s] =
                                                existings]
                             /\ pc' = [pc EXCEPT ![s] =
                                         IF SkipsCreate(state[s]) THEN "finish"
                                         ELSE "create"]
                             /\ UNCHANGED << condVars, calls, ret, raised,
                                             pings >>
                        ELSE \* started(), then run_container(existing.id)
                             /\ state' = [state EXCEPT ![s] = STARTED]
                             /\ actions' = [actions EXCEPT ![s] =
                                              Append(@, START)]
                             /\ calls' = [calls EXCEPT ![s] =
                                            Append(@, "run_container")]
                             /\ \/ /\ containers' = [containers EXCEPT ![s] =
                                          [existings EXCEPT ![1] =
                                             Container("running", "existing")]]
                                   /\ pc' = [pc EXCEPT ![s] = "ping_existing"]
                                   /\ pings' = [pings EXCEPT ![s] = 0]
                                   /\ UNCHANGED << ret, raised >>
                                \/ /\ containers' = [containers EXCEPT ![s] =
                                                       existings]
                                   /\ pc' = [pc EXCEPT ![s] = CaughtPc]
                                   /\ ret' = [ret EXCEPT ![s] = "handler"]
                                   /\ raised' = [raised EXCEPT ![s] = TRUE]
                                   /\ UNCHANGED pings
                 ELSE \* neither running nor exited
                      /\ containers' = [containers EXCEPT ![s] = existings]
                      /\ pc' = [pc EXCEPT ![s] =
                                  IF SkipsCreate(state[s]) THEN "finish"
                                  ELSE "create"]
                      /\ UNCHANGED << condVars, reuse_case, calls, ret, raised,
                                      pings >>
    /\ UNCHANGED << cfgVars, ctxVars, driverVars, status, frames >>

\* run_image: pre_start, run_service_on_network, started()
Create(s) ==
    /\ pc[s] = "create"
    /\ \/ \* pre_start raises
          /\ ~Fresh(s)
          /\ calls' = [calls EXCEPT ![s] = Append(@, "pre_start")]
          /\ pc' = [pc EXCEPT ![s] = CaughtPc]
          /\ ret' = [ret EXCEPT ![s] = "handler"]
          /\ raised' = [raised EXCEPT ![s] = TRUE]
          /\ UNCHANGED << condVars, containers, pings >>
       \/ \* run_service_on_network raises, before or after the engine
          \* created the container
          /\ ~Fresh(s)
          /\ calls' = [calls EXCEPT ![s] =
                         @ \o << "pre_start", "run_service_on_network" >>]
          /\ actions' = [actions EXCEPT ![s] = Append(@, PRE_START)]
          /\ \/ UNCHANGED containers
             \/ containers' = [containers EXCEPT ![s] =
                                 Append(@, Container("exited", "new"))]
          /\ pc' = [pc EXCEPT ![s] = CaughtPc]
          /\ ret' = [ret EXCEPT ![s] = "handler"]
          /\ raised' = [raised EXCEPT ![s] = TRUE]
          /\ UNCHANGED << state, pings >>
       \/ \* the container runs
          /\ calls' = [calls EXCEPT ![s] =
                         @ \o << "pre_start", "run_service_on_network" >>]
          /\ actions' = [actions EXCEPT ![s] = @ \o << PRE_START, START >>]
          /\ state' = [state EXCEPT ![s] = STARTED]
          /\ containers' = [containers EXCEPT ![s] =
                              Append(@, Container("running", "new"))]
          /\ pings' = [pings EXCEPT ![s] = 0]
          /\ pc' = [pc EXCEPT ![s] = "ping_new"]
          /\ UNCHANGED << ret, raised >>
    /\ UNCHANGED << cfgVars, ctxVars, driverVars, status, frames,
                    existing_seen, reuse_case >>

\* ping(): one pass of the loop, called from _start_existing
\* (pc = "ping_existing") or from run_image (pc = "ping_new")
Ping(s) ==
    /\ pc[s] \in {"ping_existing", "ping_new"}
    /\ IF pings[s] < MaxPings
         THEN /\ calls' = [calls EXCEPT ![s] = Append(@, "ping")]
              /\ \/ \* service.ping() returns True: pinged()
                    /\ actions' = [actions EXCEPT ![s] = Append(@, PING)]
                    /\ state' = [state EXCEPT ![s] = RUNNING]
                    /\ pc' = [pc EXCEPT ![s] =
                                IF pc[s] = "ping_new" THEN "post_start"
                                ELSE IF SkipsCreate(RUNNING) THEN "finish"
                                ELSE "create"]
                    /\ UNCHANGED << pings, ret, raised >>
                 \/ \* returns False: sleep
                    /\ ~Fresh(s)
                    /\ pings' = [pings EXCEPT ![s] = @ + 1]
                    /\ UNCHANGED << condVars, pc, ret, raised >>
                 \/ \* raises
                    /\ pc' = [pc EXCEPT ![s] = CaughtPc]
                    /\ ret' = [ret EXCEPT ![s] = "handler"]
                    /\ raised' = [raised EXCEPT ![s] = TRUE]
                    /\ UNCHANGED << condVars, pings >>
         ELSE \* the timeout has passed: ping() returns False, the caller
              \* calls _fail()
              /\ pc' = [pc EXCEPT ![s] = "_fail"]
              /\ ret' = [ret EXCEPT ![s] =
                           IF pc[s] = "ping_new" THEN "run_image"
                           ELSE "_start_existing"]
              /\ raised' = [raised EXCEPT ![s] = TRUE]
              /\ UNCHANGED << condVars, calls, pings >>
    /\ UNCHANGED << cfgVars, ctxVars, driverVars, status, frames,
                    containers, existing_seen, reuse_case >>

\* run_image: post_start, post_started()
PostStart(s) ==
    /\ pc[s] = "post_start"
    /\ calls' = [calls EXCEPT ![s] = Append(@, "post_start")]
    /\ \/ /\ actions' = [actions EXCEPT ![s] = Append(@, POST_START)]
          /\ pc' = [pc EXCEPT ![s] = "finish"]
          /\ UNCHANGED << ret, raised >>
       \/ /\ ~Fresh(s)
          /\ pc' = [pc EXCEPT ![s] = CaughtPc]
          /\ ret' = [ret EXCEPT ![s] = "handler"]
          /\ raised' = [raised EXCEPT ![s] = TRUE]
          /\ UNCHANGED actions
    /\ UNCHANGED << cfgVars, ctxVars, driverVars, status, state, frames,
                    pings, containers, existing_seen, reuse_case >>

----------------------------------------------------------------------------
\* ServiceAgent._fail and RunningContext.service_failed

Frame(s) == [svc |-> s, stage |-> "lock", left |-> << >>]

Top(t) == frames[t][Len(frames[t])]

SetTop(t, f) == [frames EXCEPT ![t] = [@ EXCEPT ![Len(@)] = f]]

\* Where an exception raised inside _fail() takes the thread: out of run()
\* when _fail was called by the except clause of start_container, into that
\* except clause (which calls _fail again) when it was called inside the try.
RaisedInFailPc(site) == IF site = "handler" THEN "dead" ELSE "_fail"

\* a look at the key that leaves it in agent_set
pop_none(agents, service) == agents

\* agent_set.pop(service) of a pending service: the pending set afterwards
pop(agents, service) == agents \ {service}

\* service_failed: the services of the snapshot that are failed in turn
FailsWith(failed_service, service) == failed_service \in dependencies[service]

\* _fail: status, run_condition.fail(), then the call of service_failed
Fail(s) ==
    /\ pc[s] = "_fail"
    /\ status' = [status EXCEPT ![s] = FAILED]
    /\ state' = [state EXCEPT ![s] = FAILED]
    /\ frames' = [frames EXCEPT ![s] = << Frame(s) >>]
    /\ pc' = [pc EXCEPT ![s] = "service_failed"]
    /\ UNCHANGED << cfgVars, ctxVars, driverVars, actions, ret, pings,
                    engineVars, raised >>

\* service_failed: the lock is taken and agent_set.pop(failed_service) runs;
\* a service that is not pending raises KeyError, which releases the lock
\* and leaves every service_failed call of the thread.  lock_calls counts
\* the lock's __enter__ by the service the call was made for.
ServiceFailedPop(t) ==
    /\ pc[t] = "service_failed"
    /\ Top(t).stage = "lock"
    /\ service_pop_lock = 0
    /\ lock_calls' = [lock_calls EXCEPT ![Top(t).svc].service_failed = @ + 1]
    /\ IF Top(t).svc \in agent_set
         THEN /\ agent_set' = pop(agent_set, Top(t).svc)
              /\ service_pop_lock' = t
              /\ frames' = SetTop(t, [Top(t) EXCEPT !.stage = "append"])
              /\ UNCHANGED << pc, ret >>
         ELSE /\ frames' = [frames EXCEPT ![t] = << >>]
              /\ pc' = [pc EXCEPT ![t] = RaisedInFailPc(ret[t])]
              /\ ret' = [ret EXCEPT ![t] = "handler"]
              /\ UNCHANGED << agent_set, service_pop_lock >>
    /\ UNCHANGED << cfgVars, driverVars, processed_services, failed_services,
                    open_dependencies, open_dependants, status, condVars,
                    pings, engineVars, raised >>

\* a with block that ends after the loop of service_failed: the thread
\* keeps the lock while it fails the dependants
KeptLock(t) == t

\* service_failed: the holder of the lock when the with block has ended
ReleasedLock(t) == 0

\* service_failed: failed_services.append, the lock is released
ServiceFailedAppend(t) ==
    /\ pc[t] = "service_failed"
    /\ Top(t).stage = "append"
    /\ failed_services' = Append(failed_services, Top(t).svc)
    /\ service_pop_lock' = ReleasedLock(t)
    /\ frames' = SetTop(t, [Top(t) EXCEPT !.stage = "snapshot"])
    /\ UNCHANGED << cfgVars, driverVars, agent_set, processed_services,
                    lock_calls, open_dependencies, open_dependants, status, condVars,
                    pc, ret, pings, engineVars, raised >>

\* service_failed: services_left = list(self.agent_set.keys())
ServiceFailedSnapshot(t) ==
    /\ pc[t] = "service_failed"
    /\ Top(t).stage = "snapshot"
    /\ frames' = SetTop(t, [Top(t) EXCEPT !.stage = "loop",
                                          !.left = Keys(agent_set)])
    /\ UNCHANGED << cfgVars, ctxVars, driverVars, status, condVars, pc, ret,
                    pings, engineVars, raised >>

\* service_failed: the loop over services_left, up to and including the
\* next recursive call, or the return when no dependant is left
ServiceFailedLoop(t) ==
    /\ pc[t] = "service_failed"
    /\ Top(t).stage = "loop"
    /\ LET left == Top(t).left
           hits == {i \in 1..Len(left) : FailsWith(Top(t).svc, left[i])}
       IN  IF hits = {}
             THEN /\ frames' = [frames EXCEPT ![t] = SubSeq(@, 1, Len(@) - 1)]
                  /\ pc' = [pc EXCEPT ![t] =
                              IF Len(frames[t]) = 1 THEN "cleanup"
                              ELSE "service_failed"]
             ELSE LET i == CHOOSE i \in hits : \A j \in hits : i <= j
                  IN  /\ frames' = [frames EXCEPT ![t] =
                              Append(SubSeq(@, 1, Len(@) - 1),
                                     [Top(t) EXCEPT !.left =
                                         SubSeq(left, i + 1, Len(left))])
                              \o << Frame(left[i]) >>]
                      /\ UNCHANGED pc
    /\ UNCHANGED << cfgVars, ctxVars, driverVars, status, condVars, ret,
                    pings, engineVars, raised >>

\* _fail after service_failed returned: _stop_container(remove=True) when
\* the trace has a START entry; then _fail returns to its caller.
Cleanup(t) ==
    /\ pc[t] = "cleanup"
    /\ IF StopsOnFail(actions[t])
         THEN /\ calls' = [calls EXCEPT ![t] =
                             @ \o StopCalls(containers[t], TRUE)]
              /\ containers' = [containers EXCEPT ![t] = AfterStop(@, TRUE)]
         ELSE UNCHANGED << calls, containers >>
    /\ pc' = [pc EXCEPT ![t] =
                IF ret[t] = "_start_existing" /\ ~SkipsCreate(state[t])
                  THEN "create" ELSE "finish"]
    /\ ret' = [ret EXCEPT ![t] = "none"]
    /\ UNCHANGED << cfgVars, ctxVars, driverVars, status, condVars, frames,
                    pings, existing_seen, reuse_case, raised >>

----------------------------------------------------------------------------
\* The end of start_container, and RunningContext.service_started

\* Whether start_container reports the service started
ReportsStarted(st) == st = RUNNING

Finish(s) ==
    /\ pc[s] = "finish"
    /\ IF ReportsStarted(state[s])
         THEN /\ status' = [status EXCEPT ![s] = STARTED]
              /\ pc' = [pc EXCEPT ![s] = "service_started"]
         ELSE /\ pc' = [pc EXCEPT ![s] = "done"]
              /\ UNCHANGED status
    /\ UNCHANGED << cfgVars, ctxVars, driverVars, condVars, ret, frames,
                    pings, engineVars, raised >>

\* service_started / service_stopped: the lock is taken and
\* agent_set.pop(service) runs; KeyError leaves run().
ServicePop(s) ==
    /\ pc[s] \in {"service_started", "service_stopped"}
    /\ service_pop_lock = 0
    /\ lock_calls' = [lock_calls EXCEPT ![s].service_done = @ + 1]
    /\ IF s \in agent_set
         THEN /\ agent_set' = pop(agent_set, s)
              /\ service_pop_lock' = s
              /\ pc' = [pc EXCEPT ![s] = "append"]
         ELSE /\ pc' = [pc EXCEPT ![s] = "dead"]
              /\ UNCHANGED << agent_set, service_pop_lock >>
    /\ UNCHANGED << cfgVars, driverVars, processed_services, failed_services,
                    open_dependencies, open_dependants, status, condVars,
                    ret, frames, pings, engineVars, raised >>

\* a notification that clears the whole list of every pending agent
ProcessedAll(open, s) ==
    [x \in Registry |-> IF x \in agent_set THEN << >> ELSE open[x]]

\* list.remove(x) when x is in the list: the list without the first x
ListRemove(list, x) ==
    IF ~Contains(list, x) THEN list
    ELSE LET first == CHOOSE i \in 1..Len(list) :
                          /\ list[i] = x
                          /\ \A j \in 1..(i - 1) : list[j] # x
         IN  SubSeq(list, 1, first - 1) \o SubSeq(list, first + 1, Len(list))

\* process_service_started / process_service_stopped on every agent that is
\* still pending
Processed(open, s) ==
    [x \in Registry |->
        IF x \in agent_set THEN ListRemove(open[x], s) ELSE open[x]]

\* service_started / service_stopped: processed_services.append, the
\* remaining agents are told, the lock is released
ServiceAppend(s) ==
    /\ pc[s] = "append"
    /\ processed_services' = Append(processed_services, s)
    /\ IF run = "start_all"
         THEN /\ open_dependencies' = Processed(open_dependencies, s)
              /\ UNCHANGED open_dependants
         ELSE /\ open_dependants' = Processed(open_dependants, s)
              /\ UNCHANGED open_dependencies
    /\ service_pop_lock' = 0
    /\ pc' = [pc EXCEPT ![s] = "done"]
    /\ UNCHANGED << cfgVars, driverVars, agent_set, failed_services,
                    lock_calls, status,
                    condVars, ret, frames, pings, engineVars, raised >>

----------------------------------------------------------------------------
\* ServiceAgent.stop_container

\* What existing_on_network can report to a STOP action
StopExistings ==
    { << >> }
    \cup { << Container(st, "existing") >> : st \in ExistingStatuses }
    \cup { << Container("exited", "existing"),
              Container("running", "existing") >> }

\* stop_container: _stop_container, then the status and the notification.
\* Nothing catches an exception of the engine (existing_on_network, stop,
\* remove): it leaves run() before the status is set.
StopContainer(s) ==
    /\ pc[s] = "stop_container"
    /\ \E existings \in StopExistings :
         /\ Fresh(s) => existings = << Container("running", "existing") >>
         /\ \/ /\ calls' = [calls EXCEPT ![s] =
                                @ \o StopCalls(existings, remove)]
               /\ containers' = [containers EXCEPT ![s] =
                                   AfterStop(existings, remove)]
               /\ status' = [status EXCEPT ![s] = STOPPED]
               /\ pc' = [pc EXCEPT ![s] = "service_stopped"]
               /\ UNCHANGED raised
            \/ /\ ~Fresh(s)
               /\ calls' = [calls EXCEPT ![s] =
                                IF StopCalls(existings, remove) = << >>
                                  THEN @
                                  ELSE Append(@, Head(StopCalls(existings,
                                                                remove)))]
               /\ containers' = [containers EXCEPT ![s] = existings]
               /\ raised' = [raised EXCEPT ![s] = TRUE]
               /\ pc' = [pc EXCEPT ![s] = "dead"]
               /\ UNCHANGED status
    /\ UNCHANGED << cfgVars, ctxVars, driverVars, condVars, ret, frames,
                    pings, existing_seen, reuse_case >>

----------------------------------------------------------------------------
\* The run

Next ==
    \/ DriverPoll
    \/ DriverReturn
    \/ \E s \in Registry : Run(s)
    \/ \E s \in Registry : StartContainer(s)
    \/ \E s \in Registry : RunImage(s)
    \/ \E s \in Registry : Create(s)
    \/ \E s \in Registry : Ping(s)
    \/ \E s \in Registry : PostStart(s)
    \/ \E s \in Registry : Fail(s)
    \/ \E s \in Registry : ServiceFailedPop(s)
    \/ \E s \in Registry : ServiceFailedAppend(s)
    \/ \E s \in Registry : ServiceFailedSnapshot(s)
    \/ \E s \in Registry : ServiceFailedLoop(s)
    \/ \E s \in Registry : Cleanup(s)
    \/ \E s \in Registry : Finish(s)
    \/ \E s \in Registry : ServicePop(s)
    \/ \E s \in Registry : ServiceAppend(s)
    \/ \E s \in Registry : StopContainer(s)

Spec == Init /\ [][Next]_vars

\* The runs in which every service meets a fresh engine, with threads that
\* run whenever they can: a call that can return does return, a thread that
\* can take the lock does take it.
FairInit == Init /\ detailed = 0

FairSpec == FairInit /\ [][Next]_vars /\ WF_vars(Next)

----------------------------------------------------------------------------
\* ServiceCollection: loading the definitions and reducing the registry

\* The registries that are loaded have at most MaxServices services.
MaxServices == 3

\* The dependency lists a service can have among n services: every list of
\* names without repetition (a service may name itself).
DependencyLists(n) ==
    {deps \in UNION {[1..k -> 1..n] : k \in 0..n} :
        \A i, j \in DOMAIN deps : i # j => deps[i] # deps[j]}

\* Registries with a diamond: an acyclic one, and two in which the services
\* of a cycle depend on the diamond.
Diamonds ==
    { << << >>, << 1 >>, << 1 >>, << 2, 3 >> >>,
      << << >>, << 1 >>, << 1 >>, << 2, 3 >>, << 4, 6 >>, << 4, 5 >> >>,
      << << >>, << 1 >>, << 1 >>, << 2, 3 >>, << 6, 4 >>, << 5, 4 >> >> }

\* The service definitions that are loaded: service i depends on the services
\* of the i-th list, in the order of the list.
Definitions ==
    UNION {[1..n -> DependencyLists(n)] : n \in 1..MaxServices} \cup Diamonds

\* connect_services: all_by_name
connect_services(svcs) == [i \in 1..Len(svcs) |-> i]

\* connect_services: service._dependants, in the order of the services
dependants_of(svcs, s) ==
    SelectSeq(connect_services(svcs), LAMBDA x : Contains(svcs[x], s))

\* check_circular_dependencies: go_up_dependencies(checked) for the service
\* start, called with the count so far; the result is the count afterwards
\* and whether ServiceLoadError was raised.  go_up_from is the for loop from
\* the i-th dependency on; size is len(self.all_by_name).
RECURSIVE go_up_dependencies(_, _, _, _, _)
RECURSIVE go_up_from(_, _, _, _, _, _)
go_up_dependencies(svcs, size, start, checked, count) ==
    go_up_from(svcs, size, start, checked, 1, count + 1)

go_up_from(svcs, size, start, checked, i, count) ==
    IF i > Len(svcs[checked])
      THEN [count |-> count, raised |-> FALSE]
      ELSE LET dependency == svcs[checked][i]
           IN  IF dependency = start
                 THEN [count |-> count, raised |-> TRUE]
                 ELSE IF count = size
                 THEN [count |-> count, raised |-> FALSE]
                 ELSE LET up == go_up_dependencies(svcs, size, start,
                                                   dependency, count)
                      IN  IF up.raised THEN up
                          ELSE go_up_from(svcs, size, start, checked, i + 1,
                                          up.count)

\* check_circular_dependencies raising also when a traversal has used up
\* its count
check_circular_dependencies_counted(svcs) ==
    LET with_dependencies == {x \in 1..Len(svcs) : svcs[x] # << >>}
    IN  \E service \in with_dependencies :
            LET up == go_up_dependencies(svcs, Len(svcs), service, service, 0)
            IN  up.raised \/ up.count >= Len(svcs)

\* check_circular_dependencies: whether it raises ServiceLoadError
check_circular_dependencies(svcs) ==
    LET with_dependencies == {x \in 1..Len(svcs) : svcs[x] # << >>}
    IN  \E service \in with_dependencies :
            go_up_dependencies(svcs, Len(svcs), service, service, 0).raised

\* exclude_for_start: the pops; a name that is no key raises KeyError
RECURSIVE pop_all(_, _)
pop_all(by_name, exclude) ==
    IF exclude = << >>
      THEN [exception |-> "none", collection |-> by_name]
      ELSE IF ~Contains(by_name, Head(exclude))
      THEN [exception |-> "KeyError", collection |-> by_name]
      ELSE pop_all(SelectSeq(by_name, LAMBDA x : x # Head(exclude)),
                   Tail(exclude))

\* exclude_for_start: the exception raised and all_by_name afterwards
exclude_for_start(svcs, by_name, exclude) ==
    LET excluded_deps(service) ==
            SelectSeq(svcs[service], LAMBDA dep : Contains(exclude, dep))
        missing == SelectSeq(exclude, LAMBDA x : ~Contains(by_name, x))
    IN  IF \E service \in Range(by_name) :
              ~Contains(exclude, service) /\ excluded_deps(service) # << >>
          THEN [exception |-> "ServiceLoadError", collection |-> by_name]
          ELSE IF missing # << >>
          THEN [exception |-> "ServiceLoadError", collection |-> by_name]
          ELSE pop_all(by_name, exclude)

\* exclude_for_stop: the for loop from the rest of the names on; a name
\* that is no key raises KeyError
RECURSIVE exclude_for_stop_from(_, _, _, _)
exclude_for_stop_from(svcs, by_name, exclude, rest) ==
    IF rest = << >>
      THEN [exception |-> "none", collection |-> by_name]
      ELSE IF ~Contains(by_name, Head(rest))
      THEN [exception |-> "KeyError", collection |-> by_name]
      ELSE LET deps_to_be_stopped ==
                   SelectSeq(svcs[Head(rest)],
                             LAMBDA dep : ~Contains(exclude, dep))
           IN  IF deps_to_be_stopped # << >>
                 THEN [exception |-> "ServiceLoadError",
                       collection |-> by_name]
                 ELSE exclude_for_stop_from(
                          svcs,
                          SelectSeq(by_name, LAMBDA x : x # Head(rest)),
                          exclude, Tail(rest))

\* exclude_for_stop: the exception raised and all_by_name afterwards
exclude_for_stop(svcs, by_name, exclude) ==
    exclude_for_stop_from(svcs, by_name, exclude, exclude)

\* update_for_base_service: the for loop over service._dependants
RECURSIVE enqueue(_, _, _)
enqueue(queue, required, deps) ==
    IF deps = << >> THEN queue
    ELSE LET dependant == Head(deps)
         IN  enqueue(IF ~Contains(queue, dependant)
                           /\ ~Contains(required, dependant)
                       THEN Append(queue, dependant) ELSE queue,
                     required, Tail(deps))

\* update_for_base_service: the while loop; the result is required
RECURSIVE required_from(_, _, _)
required_from(svcs, queue, required) ==
    IF queue = << >> THEN required
    ELSE LET service == Head(queue)
             req == Append(required, service)
         IN  required_from(svcs,
                           enqueue(Tail(queue), req,
                                   dependants_of(svcs, service)),
                           req)

\* a reduction to the base service and the services that name it
update_for_base_service_direct(svcs, name) ==
    << name >> \o dependants_of(svcs, name)

\* update_for_base_service: all_by_name afterwards
update_for_base_service(svcs, name) ==
    required_from(svcs, << name >>, << >>)

\* The lists of names given to exclude_for_start and exclude_for_stop: up
\* to two names, among them one that is not defined.
ExcludeLists(svcs) ==
    UNION {[1..k -> 1..(Len(svcs) + 1)] : k \in 0..2}

\* The collection is new; no run has a context.
\* No RunningContext was made
NoRun ==
    /\ run = "none"
    /\ remove = FALSE
    /\ dependencies = << >>
    /\ detailed = 0
    /\ agent_set = {}
    /\ processed_services = << >>
    /\ failed_services = << >>
    /\ service_pop_lock = 0
    /\ lock_calls = << >>
    /\ status = << >>
    /\ state = << >>
    /\ actions = << >>
    /\ open_dependencies = << >>
    /\ open_dependants = << >>
    /\ pc = << >>
    /\ ret = << >>
    /\ frames = << >>
    /\ pings = << >>
    /\ containers = << >>
    /\ existing_seen = << >>
    /\ reuse_case = << >>
    /\ calls = << >>
    /\ raised = << >>
    /\ driver = "none"
    /\ result = << >>
    /\ network_removed = FALSE
    /\ action = << >>

LoadInit ==
    /\ services \in Definitions
    /\ collection = << >>
    /\ excluded = << >>
    /\ service_name = 0
    /\ exception = "none"
    /\ stop_agents = {}
    /\ start_agents = {}
    /\ load_pc = "new"
    /\ NoUnits
    /\ NoRun

runVars == << run, remove, dependencies, detailed, agent_set,
              processed_services, failed_services, service_pop_lock,
              lock_calls, status, state, actions, open_dependencies,
              open_dependants, pc, ret, frames, pings, containers,
              existing_seen, reuse_case, calls, raised, driver, result,
              network_removed, action >>

\* the variables of a run but options.remove and the removal of the network
reloadFrame ==
    << run, dependencies, detailed, agent_set, processed_services,
       failed_services, service_pop_lock, lock_calls, status, state, actions,
       open_dependencies, open_dependants, pc, ret, frames, pings,
       containers, existing_seen, reuse_case, calls, raised, driver, result,
       action >>

\* load_definitions has returned
Loaded == load_pc = "load_definitions" /\ exception = "none"

\* load_definitions: connect_services, then check_circular_dependencies
LoadDefinitions ==
    /\ load_pc = "new"
    /\ collection' = connect_services(services)
    /\ exception' = IF check_circular_dependencies(services)
                      THEN "ServiceLoadError" ELSE "none"
    /\ load_pc' = "load_definitions"
    /\ UNCHANGED << runVars, unitVars, services, excluded, service_name, stop_agents,
                    start_agents >>

\* exclude_for_start(exclude)
ExcludeForStart ==
    /\ Loaded
    /\ \E exclude \in ExcludeLists(services) :
         LET after == exclude_for_start(services, collection, exclude)
         IN  /\ excluded' = exclude
             /\ collection' = after.collection
             /\ exception' = after.exception
    /\ load_pc' = "exclude_for_start"
    /\ UNCHANGED << runVars, unitVars, services, service_name, stop_agents,
                    start_agents >>

\* exclude_for_stop(exclude)
ExcludeForStop ==
    /\ Loaded
    /\ \E exclude \in ExcludeLists(services) :
         LET after == exclude_for_stop(services, collection, exclude)
         IN  /\ excluded' = exclude
             /\ collection' = after.collection
             /\ exception' = after.exception
    /\ load_pc' = "exclude_for_stop"
    /\ UNCHANGED << runVars, unitVars, services, service_name, stop_agents,
                    start_agents >>

\* start_all after exclude_for_start: RunningContext.__init__ makes an agent
\* for every service of all_by_name
StartAll ==
    /\ load_pc = "exclude_for_start"
    /\ exception = "none"
    /\ start_agents' = Range(collection)
    /\ load_pc' = "start_all"
    /\ UNCHANGED << runVars, unitVars, services, collection, excluded, service_name,
                    exception, stop_agents >>

\* update_for_base_service(service_name)
UpdateForBaseService ==
    /\ Loaded
    /\ \E name \in 1..(Len(services) + 1) :
         /\ service_name' = name
         /\ IF ~Contains(collection, name)
              THEN /\ exception' = "ServiceLoadError"
                   /\ UNCHANGED collection
              ELSE /\ collection' = update_for_base_service(services, name)
                   /\ UNCHANGED exception
    /\ load_pc' = "update_for_base_service"
    /\ UNCHANGED << runVars, unitVars, services, excluded, stop_agents, start_agents >>

\* stop_all after update_for_base_service or exclude_for_stop:
\* RunningContext.__init__ makes an agent for every service of all_by_name
StopAll ==
    /\ load_pc \in {"update_for_base_service", "exclude_for_stop"}
    /\ exception = "none"
    /\ stop_agents' = Range(collection)
    /\ load_pc' = "stop_all"
    /\ UNCHANGED << runVars, unitVars, services, collection, excluded, service_name,
                    exception, start_agents >>

\* reload_service(service, remove): a collection is loaded, reduced and
\* stopped, and a second collection is loaded and started; the stop_all of
\* the first, whose excluded is empty, ends with the removal of the network
ReloadService ==
    /\ load_pc = "new"
    /\ \E name \in 1..(Len(services) + 1), build_from \in BOOLEAN,
          rm \in BOOLEAN :
         /\ service_name' = name
         /\ remove' = rm
         /\ collection' = connect_services(services)
         /\ IF check_circular_dependencies(services)
              THEN /\ exception' = "ServiceLoadError"
                   /\ UNCHANGED << stop_agents, start_agents,
                                   network_removed >>
              ELSE IF name > Len(services) \/ ~build_from
              THEN /\ exception' = "ServiceDefinitionError"
                   /\ UNCHANGED << stop_agents, start_agents,
                                   network_removed >>
              ELSE /\ stop_agents' =
                         Range(update_for_base_service(services, name))
                   /\ network_removed' = RemovesNetwork(rm, excluded)
                   /\ start_agents' = Range(connect_services(services))
                   /\ UNCHANGED exception
    /\ load_pc' = "reload_service"
    /\ UNCHANGED << reloadFrame, unitVars, services, excluded >>

LoadNext ==
    \/ LoadDefinitions
    \/ ExcludeForStart
    \/ ExcludeForStop
    \/ StartAll
    \/ UpdateForBaseService
    \/ StopAll
    \/ ReloadService

LoadSpec == LoadInit /\ [][LoadNext]_vars

----------------------------------------------------------------------------
\* connect_services on services given by name

\* The lists given to connect_services have at most MaxGiven services, each
\* naming at most MaxDependencies dependencies.
MaxGiven == 2
MaxDependencies == 2

\* The services given to connect_services: a name and a list of dependency
\* names each; names repeat, and one name more than there are services can
\* be named as a dependency.
GivenServices ==
    UNION {[1..n -> [name : 1..MaxGiven,
                     dependencies :
                         UNION {[1..k -> 1..(MaxGiven + 1)] :
                                    k \in 0..MaxDependencies}]] :
           n \in 1..MaxGiven}

\* connect_services without the test of the repeated names
multiples_none(given) == {}

\* connect_services: the names counted more than once
multiples(given) ==
    {name \in {given[i].name : i \in DOMAIN given} :
        Cardinality({i \in DOMAIN given : given[i].name = name}) > 1}

\* connect_services: all_by_name, from a name to the service (its position
\* in the list)
given_by_name(given) ==
    [name \in {given[i].name : i \in DOMAIN given} |->
        CHOOSE i \in DOMAIN given :
            /\ given[i].name = name
            /\ \A j \in DOMAIN given : given[j].name = name => j <= i]

\* connect_services: a dependency name that is no key of all_by_name
unknown_dependency(given) ==
    \E i \in DOMAIN given : \E k \in DOMAIN given[i].dependencies :
        given[i].dependencies[k] \notin DOMAIN given_by_name(given)

\* connect_services: actual_deps, the services the dependency names stand
\* for
actual_deps(given, i) ==
    [k \in DOMAIN given[i].dependencies |->
        given_by_name(given)[given[i].dependencies[k]]]

\* connect_services: the exception raised, or the registry returned, the
\* dependencies set and the _dependants set
connect_given(given) ==
    IF multiples(given) # {} \/ unknown_dependency(given)
      THEN [exception |-> "ServiceLoadError"]
      ELSE [exception |-> "none",
            all_by_name |-> given_by_name(given),
            dependencies |-> [i \in DOMAIN given |-> actual_deps(given, i)],
            _dependants |->
                [i \in DOMAIN given |->
                    SelectSeq([x \in DOMAIN given |-> x],
                              LAMBDA x : Contains(actual_deps(given, x), i))]]

ConnectInit ==
    /\ definitions \in GivenServices
    /\ connected = << >>
    /\ context = << >>
    /\ files = << >>
    /\ saved = << >>
    /\ NoStops
    /\ NoClock
    /\ services = << >>
    /\ collection = << >>
    /\ excluded = << >>
    /\ service_name = 0
    /\ exception = "none"
    /\ stop_agents = {}
    /\ start_agents = {}
    /\ load_pc = "new"
    /\ NoRun

\* connect_services(services)
ConnectServices ==
    /\ load_pc = "new"
    /\ connected' = connect_given(definitions)
    /\ exception' = connect_given(definitions).exception
    /\ load_pc' = "connect_services"
    /\ UNCHANGED << runVars, definitions, context, files, saved, stopVars,
                    monotonic, services, collection, excluded, service_name,
                    stop_agents, start_agents >>

ConnectNext == ConnectServices

ConnectSpec == ConnectInit /\ [][ConnectNext]_vars

----------------------------------------------------------------------------
\* ServiceAgent: the action property, and run() without an action

\* The values assigned to ServiceAgent.action
ActionValues == {START, STOP, "restart", None}

\* One call of RunningContext.service_failed(svc) with no other thread
\* running: at is the pending set, the failed_services, the services
\* service_failed was called for and whether agent_set.pop raised KeyError.
\* service_failed_left is the for loop over the rest of services_left.
RECURSIVE service_failed_alone(_, _)
RECURSIVE service_failed_left(_, _, _)
service_failed_alone(at, svc) ==
    LET called == [at EXCEPT !.called = Append(@, svc)]
    IN  IF svc \notin at.agent_set
          THEN [called EXCEPT !.raised = TRUE]
          ELSE LET popped ==
                       [called EXCEPT
                           !.agent_set = @ \ {svc},
                           !.failed_services = Append(@, svc)]
               IN  service_failed_left(popped, svc, Keys(popped.agent_set))

service_failed_left(at, svc, services_left) ==
    IF at.raised \/ services_left = << >>
      THEN at
      ELSE service_failed_left(
               IF FailsWith(svc, Head(services_left))
                 THEN service_failed_alone(at, Head(services_left))
                 ELSE at,
               svc, Tail(services_left))

\* A RunningContext over a registry; no agent was given an action, no thread
\* was started.
AgentInit ==
    /\ run = "none"
    /\ remove = FALSE
    /\ \E sc \in Scenarios :
         /\ dependencies = sc.deps
         /\ detailed = sc.detailed
         /\ open_dependencies = [s \in DOMAIN sc.deps |->
                                   DependencyList(sc, s)]
    /\ agent_set = DOMAIN dependencies
    /\ processed_services = << >>
    /\ failed_services = << >>
    /\ service_pop_lock = 0
    /\ lock_calls = [s \in DOMAIN dependencies |->
                       [service_failed |-> 0, service_done |-> 0]]
    /\ status = [s \in DOMAIN dependencies |-> NULL]
    /\ state = [s \in DOMAIN dependencies |-> NULL]
    /\ actions = [s \in DOMAIN dependencies |-> << >>]
    /\ open_dependants = [s \in DOMAIN dependencies |->
                            Sorted({x \in DOMAIN dependencies :
                                       s \in dependencies[x]})]
    /\ pc = [s \in DOMAIN dependencies |-> "idle"]
    /\ ret = [s \in DOMAIN dependencies |-> "none"]
    /\ frames = [s \in DOMAIN dependencies |-> << >>]
    /\ pings = [s \in DOMAIN dependencies |-> 0]
    /\ containers = [s \in DOMAIN dependencies |-> << >>]
    /\ existing_seen = [s \in DOMAIN dependencies |-> << >>]
    /\ reuse_case = [s \in DOMAIN dependencies |-> << >>]
    /\ calls = [s \in DOMAIN dependencies |-> << >>]
    /\ raised = [s \in DOMAIN dependencies |-> FALSE]
    /\ driver = "none"
    /\ result = << >>
    /\ network_removed = FALSE
    /\ action = [s \in DOMAIN dependencies |-> None]
    /\ NoUnits
    /\ services = open_dependencies
    /\ collection = [i \in DOMAIN dependencies |-> i]
    /\ excluded = << >>
    /\ service_name = 0
    /\ exception = "none"
    /\ stop_agents = {}
    /\ start_agents = {}
    /\ load_pc = "new"

\* The setter of ServiceAgent.action, called on an agent whose thread was
\* not started
SetAction(s) ==
    /\ pc[s] = "idle"
    /\ \E aktion \in ActionValues :
         IF aktion \notin {START, STOP}
           THEN /\ exception' = "ServiceAgentException"
                /\ UNCHANGED action
           ELSE /\ exception' = "none"
                /\ action' = [action EXCEPT ![s] = aktion]
    /\ load_pc' = "action"
    /\ service_name' = s
    /\ UNCHANGED << run, remove, dependencies, detailed, ctxVars, status,
                    condVars, pc, ret, frames, pings, engineVars, raised,
                    driver, result, network_removed, unitVars, services,
                    collection, excluded, stop_agents, start_agents >>

\* run() of a pending agent whose action is None: the status, the call of
\* service_failed with all it does, and the exception that leaves run()
RunWithoutAction(s) ==
    /\ pc[s] = "idle"
    /\ s \in agent_set
    /\ action[s] = None
    /\ LET after == service_failed_alone(
                        [agent_set |-> agent_set,
                         failed_services |-> failed_services,
                         called |-> << >>,
                         raised |-> FALSE], s)
       IN  /\ agent_set' = after.agent_set
           /\ failed_services' = after.failed_services
           /\ lock_calls' =
                  [x \in Registry |->
                      [lock_calls[x] EXCEPT !.service_failed =
                          @ + Cardinality({i \in DOMAIN after.called :
                                              after.called[i] = x})]]
           /\ exception' = IF after.raised THEN "KeyError"
                           ELSE "ServiceAgentException"
    /\ status' = [status EXCEPT ![s] = FAILED]
    /\ raised' = [raised EXCEPT ![s] = TRUE]
    /\ pc' = [pc EXCEPT ![s] = "dead"]
    /\ load_pc' = "run"
    /\ service_name' = s
    /\ UNCHANGED << run, remove, dependencies, detailed, processed_services,
                    service_pop_lock, open_dependencies, open_dependants,
                    condVars, ret, frames, pings, engineVars, driverVars,
                    unitVars, services, collection, excluded, stop_agents,
                    start_agents >>

AgentNext ==
    \/ \E s \in Registry : SetAction(s)
    \/ \E s \in Registry : RunWithoutAction(s)

AgentSpec == AgentInit /\ [][AgentNext]_vars

----------------------------------------------------------------------------
\* _Context: save_to, load_from, remove_file

\* The keys of the Context
ContextKeys == {"blah", "yada"}

\* The values of the Context: an int, strings (one with the digits of the
\* int, one with the text of a JSON literal), a bool and None
ContextValues ==
    { [type |-> "int", v |-> "123"],
      [type |-> "str", v |-> "123"],
      [type |-> "str", v |-> "hello"],
      [type |-> "str", v |-> "true"],
      [type |-> "bool", v |-> "True"],
      [type |-> "NoneType", v |-> "None"] }

\* The directories: one that exists, and a path that does not
Directories == {"directory", "/not/existing"}

NoFile == [exists |-> FALSE, document |-> << >>]

NoContext == [key \in {} |-> NoFile]

\* A dict with the given keys
Dicts(values) ==
    UNION {[keys -> values] : keys \in SUBSET ContextKeys}

\* json.dumps of a value that writes a string without its quotes
dumps_unquoted(value) ==
    IF value.type = "bool" THEN [quoted |-> FALSE, text |-> "true"]
    ELSE IF value.type = "NoneType" THEN [quoted |-> FALSE, text |-> "null"]
    ELSE [quoted |-> FALSE, text |-> value.v]

\* json.dumps of a value: a string in quotes, an int by its digits, True as
\* true, None as null
dumps(value) ==
    IF value.type = "str" THEN [quoted |-> TRUE, text |-> value.v]
    ELSE IF value.type = "bool" THEN [quoted |-> FALSE, text |-> "true"]
    ELSE IF value.type = "NoneType" THEN [quoted |-> FALSE, text |-> "null"]
    ELSE [quoted |-> FALSE, text |-> value.v]

\* json.load of a value
loads(token) ==
    IF token.quoted THEN [type |-> "str", v |-> token.text]
    ELSE IF token.text = "true" THEN [type |-> "bool", v |-> "True"]
    ELSE IF token.text = "null" THEN [type |-> "NoneType", v |-> "None"]
    ELSE [type |-> "int", v |-> token.text]

\* dict.update(**new_data)
update(dict, new_data) ==
    [key \in DOMAIN dict \cup DOMAIN new_data |->
        IF key \in DOMAIN new_data THEN new_data[key] ELSE dict[key]]

ContextInit ==
    /\ context \in Dicts(ContextValues)
    /\ files = [d \in Directories |-> NoFile]
    /\ saved = [d \in Directories |-> NoContext]
    /\ NoStops
    /\ NoClock
    /\ definitions = << >>
    /\ connected = << >>
    /\ services = << >>
    /\ collection = << >>
    /\ excluded = << >>
    /\ service_name = "none"
    /\ exception = "none"
    /\ stop_agents = {}
    /\ start_agents = {}
    /\ load_pc = "new"
    /\ NoRun

\* every variable but those of the Context and of the last call
contextFrame ==
    << runVars, definitions, connected, stopVars, monotonic, services,
       collection, excluded, stop_agents, start_agents >>

\* _Context(): a fresh, empty context
NewContext ==
    /\ context' = NoContext
    /\ exception' = "none"
    /\ load_pc' = "_Context"
    /\ service_name' = "none"
    /\ UNCHANGED << contextFrame, files, saved >>

\* save_to(directory): open(path, 'w') raises FileNotFoundError when the
\* directory does not exist
SaveTo(directory) ==
    /\ IF directory = "directory"
         THEN /\ files' = [files EXCEPT ![directory] =
                             [exists |-> TRUE,
                              document |-> [key \in DOMAIN context |->
                                               dumps(context[key])]]]
              /\ saved' = [saved EXCEPT ![directory] = context]
              /\ exception' = "none"
         ELSE /\ exception' = "FileNotFoundError"
              /\ UNCHANGED << files, saved >>
    /\ load_pc' = "save_to"
    /\ service_name' = directory
    /\ UNCHANGED << contextFrame, context >>

\* load_from(directory)
LoadFrom(directory) ==
    /\ IF files[directory].exists
         THEN LET new_data == [key \in DOMAIN files[directory].document |->
                                  loads(files[directory].document[key])]
              IN  context' = update(context, new_data)
         ELSE UNCHANGED context
    /\ exception' = "none"
    /\ load_pc' = "load_from"
    /\ service_name' = directory
    /\ UNCHANGED << contextFrame, files, saved >>

\* remove_file(directory)
RemoveFile(directory) ==
    /\ files' = [files EXCEPT ![directory] = NoFile]
    /\ exception' = "none"
    /\ load_pc' = "remove_file"
    /\ service_name' = directory
    /\ UNCHANGED << contextFrame, context, saved >>

ContextNext ==
    \/ NewContext
    \/ \E directory \in Directories : SaveTo(directory)
    \/ \E directory \in Directories : LoadFrom(directory)
    \/ \E directory \in Directories : RemoveFile(directory)

ContextSpec == ContextInit /\ [][ContextNext]_vars

----------------------------------------------------------------------------
\* The STOP action on an engine that finds containers by name

\* Most containers a service has on the network.
MaxContainers == 2

\* Service.name of the services, letter by letter, and types.group_name
ServiceNames == {<< "a" >>, << "b" >>, << "a", "-", "g" >>, << "b", "a" >>}

group_name == << "g" >>

\* options.timeout
Timeouts == {10, 50}

DIGITS == << "0", "1", "2", "3", "4", "5", "6", "7", "8", "9" >>

\* run_service_on_network: the four digits ending the name of the k-th
\* container of a service
random_suffix(k) ==
    [i \in 1..4 |-> DIGITS[((4 * (k - 1) + i) % 10) + 1]]

\* ServiceAgent.container_name_prefix
container_name_prefix(name) == name \o << "-" >> \o group_name

\* run_service_on_network: the name of a new container
container_name(name_prefix, suffix) == name_prefix \o << "-" >> \o suffix

\* a container of the engine
NamedContainer(service, name, st) ==
    [service |-> service, name |-> name, status |-> st]

\* the containers of a service with the given statuses
ContainersOf(service, name, statuses) ==
    [k \in 1..Len(statuses) |->
        NamedContainer(service,
                       container_name(container_name_prefix(name),
                                      random_suffix(k)),
                       statuses[k])]

\* str.startswith
startswith(text, prefix) ==
    /\ Len(prefix) <= Len(text)
    /\ SubSeq(text, 1, Len(prefix)) = prefix

\* the name filter of the engine: a container whose name begins with the
\* name asked for is found
Matches(container, name) == startswith(container.name, name)

\* existing_on_network(name, network): every container is on the network
existing_on_network(name) ==
    SelectSeq(on_network, LAMBDA container : Matches(container, name))

\* an entry of the engine's log
EngineCall(call, container, arg) ==
    [call |-> call, service |-> container.service, name |-> container.name,
     arg |-> arg]

\* the query of _stop_container, with the containers it was given
Query(name, existings) ==
    [call |-> "existing_on_network", service |-> 0, name |-> name,
     arg |-> existings]

\* _stop_container: the loop over the existings
RECURSIVE stop_existings(_, _, _)
stop_existings(existings, rm, seconds) ==
    IF existings = << >> THEN << >>
    ELSE (IF Head(existings).status = "running"
            THEN << EngineCall("stop", Head(existings), seconds) >>
            ELSE << >>)
         \o (IF rm THEN << EngineCall("remove", Head(existings), 0) >>
             ELSE << >>)
         \o stop_existings(Tail(existings), rm, seconds)

\* the engine after stop and remove on the existings
EngineAfterStop(existings, rm) ==
    LET found(c) == Contains(existings, c)
        kept == IF rm THEN SelectSeq(on_network, LAMBDA c : ~found(c))
                ELSE on_network
    IN  [i \in 1..Len(kept) |->
            IF found(kept[i]) /\ kept[i].status = "running"
              THEN NamedContainer(kept[i].service, kept[i].name, "exited")
              ELSE kept[i]]

\* the lists of container statuses of a service
StatusLists ==
    UNION {[1..k -> {"running", "exited"}] : k \in 0..MaxContainers}

\* Two services with different names (connect_services), one of which may
\* be excluded from the stop (exclude_for_stop), and their containers.
EngineInit ==
    /\ definitions \in {d \in [1..2 -> ServiceNames] : d[1] # d[2]}
    /\ excluded \in {<< >>, << 1 >>, << 2 >>}
    /\ collection = SelectSeq(<< 1, 2 >>, LAMBDA s : ~Contains(excluded, s))
    /\ options \in [timeout : Timeouts, remove : BOOLEAN]
    /\ \E first \in StatusLists, second \in StatusLists :
          on_network = ContainersOf(1, definitions[1], first)
                          \o ContainersOf(2, definitions[2], second)
    /\ engine_calls = << >>
    /\ NoClock
    /\ connected = << >>
    /\ context = << >>
    /\ files = << >>
    /\ saved = << >>
    /\ services = << << >>, << >> >>
    /\ service_name = 0
    /\ exception = "none"
    /\ stop_agents = {}
    /\ start_agents = {}
    /\ load_pc = "new"
    /\ NoRun

\* the STOP action of the agent of service s has asked the engine
Asked(s) ==
    \E i \in 1..Len(engine_calls) :
        /\ engine_calls[i].call = "existing_on_network"
        /\ engine_calls[i].name = container_name_prefix(definitions[s])

\* _stop_container(remove=options.remove) of the agent of service s
StopContainerNamed(s) ==
    /\ Contains(collection, s)
    /\ ~Asked(s)
    /\ LET existings ==
               existing_on_network(container_name_prefix(definitions[s]))
       IN  /\ engine_calls' =
                  engine_calls
                  \o << Query(container_name_prefix(definitions[s]),
                              existings) >>
                  \o stop_existings(existings, options.remove,
                                    options.timeout)
           /\ on_network' = EngineAfterStop(existings, options.remove)
    /\ service_name' = s
    /\ load_pc' = "stop_container"
    /\ UNCHANGED << runVars, definitions, connected, context, files, saved,
                    options, monotonic, services, collection, excluded,
                    exception, stop_agents, start_agents >>

EngineNext == \E s \in 1..2 : StopContainerNamed(s)

EngineSpec == EngineInit /\ [][EngineNext]_vars

----------------------------------------------------------------------------
\* The image build of the START action

\* Service.image, in parts: without a tag, with the tag latest, with another
Images == {<< "img" >>, << "img", ":latest" >>, << "img", ":1.0" >>}

\* Service.name of the two services, and a name that is no service's
BuildNames == << "one", "two" >>

\* str.endswith
endswith(text, suffix) == text # << >> /\ text[Len(text)] = suffix

\* build_image: "{name}-{time_tag}"
image_tag(name) == << name, "-", "%Y-%m-%d-%H%M" >>

\* The Service classes: build_from is None or a directory.
BuildDefinitions ==
    [1..2 -> [image : Images, build_from : {None, "build/dir"}]]

\* One agent for each of two services, made by start_all; options.build
\* names any of them; the engine has no container.
BuildInit ==
    /\ \E given \in BuildDefinitions :
          /\ definitions = [s \in 1..2 |->
                               [name |-> BuildNames[s],
                                image |-> given[s].image,
                                build_from |-> given[s].build_from]]
          /\ connected = definitions
    /\ options \in [build : SUBSET Range(BuildNames)]
    /\ run = "start_all"
    /\ remove = FALSE
    /\ dependencies = << {}, {} >>
    /\ detailed = 0
    /\ agent_set = {1, 2}
    /\ processed_services = << >>
    /\ failed_services = << >>
    /\ service_pop_lock = 0
    /\ lock_calls = [s \in 1..2 |-> [service_failed |-> 0, service_done |-> 0]]
    /\ status = [s \in 1..2 |-> IN_PROGRESS]
    /\ state = [s \in 1..2 |-> NULL]
    /\ actions = [s \in 1..2 |-> << >>]
    /\ open_dependencies = << << >>, << >> >>
    /\ open_dependants = << << >>, << >> >>
    /\ pc = [s \in 1..2 |-> "start_container"]
    /\ ret = [s \in 1..2 |-> "none"]
    /\ frames = << << >>, << >> >>
    /\ pings = << 0, 0 >>
    /\ containers = << << >>, << >> >>
    /\ existing_seen = << << >>, << >> >>
    /\ reuse_case = << << >>, << >> >>
    /\ calls = << << >>, << >> >>
    /\ raised = << FALSE, FALSE >>
    /\ driver = "loop"
    /\ result = << >>
    /\ network_removed = FALSE
    /\ action = << START, START >>
    /\ context = << >>
    /\ files = << >>
    /\ saved = << >>
    /\ on_network = << >>
    /\ engine_calls = << >>
    /\ NoClock
    /\ services = << << >>, << >> >>
    /\ collection = << 1, 2 >>
    /\ excluded = << >>
    /\ service_name = 0
    /\ exception = "none"
    /\ stop_agents = {}
    /\ start_agents = {1, 2}
    /\ load_pc = "start_all"

buildFrame ==
    << run, remove, dependencies, detailed, ctxVars, driverVars, status,
       state, ret, frames, pings, containers, existing_seen, reuse_case,
       context, files, saved, options, on_network, monotonic, services,
       collection, excluded, stop_agents, start_agents, definitions >>

\* start_container, up to the try, for a service with its image: the build
\* raises TypeError without a build directory (os.path.join), it raises the
\* engine's DockerException, or it returns the tag that becomes the image
BuildOrSkip(s) ==
    /\ pc[s] = "start_container"
    /\ load_pc' = "start_container"
    /\ service_name' = s
    /\ IF NeedsBuild(connected[s].name \in options.build,
                     connected[s].build_from # None,
                     endswith(connected[s].image, ":latest"))
         THEN IF connected[s].build_from = None
                THEN /\ raised' = [raised EXCEPT ![s] = TRUE]
                     /\ pc' = [pc EXCEPT ![s] = "dead"]
                     /\ exception' = "TypeError"
                     /\ calls' = [calls EXCEPT ![s] = Append(@, "build_image")]
                     /\ UNCHANGED << engine_calls, actions, connected >>
                ELSE /\ calls' = [calls EXCEPT ![s] = Append(@, "build_image")]
                     /\ engine_calls' =
                           Append(engine_calls,
                                  [call |-> "build_image", service |-> s,
                                   name |-> image_tag(connected[s].name),
                                   arg |-> connected[s].build_from])
                     /\ \/ /\ raised' = [raised EXCEPT ![s] = TRUE]
                           /\ pc' = [pc EXCEPT ![s] = "dead"]
                           /\ exception' = "DockerException"
                           /\ UNCHANGED << actions, connected >>
                        \/ /\ actions' = [actions EXCEPT ![s] =
                                             Append(@, BUILD_IMAGE)]
                           /\ connected' =
                                 [connected EXCEPT ![s].image =
                                     image_tag(connected[s].name)]
                           /\ pc' = [pc EXCEPT ![s] = "run_image"]
                           /\ UNCHANGED << raised, exception >>
         ELSE /\ pc' = [pc EXCEPT ![s] = "run_image"]
              /\ UNCHANGED << calls, engine_calls, actions, connected, raised,
                              exception >>
    /\ UNCHANGED buildFrame

\* run_image: the engine is asked for the existing containers
QueryExisting(s) ==
    /\ pc[s] = "run_image"
    /\ engine_calls' =
          Append(engine_calls,
                 [call |-> "existing_on_network", service |-> s,
                  name |-> container_name_prefix(<< connected[s].name >>),
                  arg |-> << >>])
    /\ pc' = [pc EXCEPT ![s] = "create"]
    /\ load_pc' = "run_image"
    /\ service_name' = s
    /\ UNCHANGED << buildFrame, calls, actions, connected, raised, exception >>

\* run_image: no container exists, one is created from service.image after
\* pre_start
CreateFromImage(s) ==
    /\ pc[s] = "create"
    /\ engine_calls' =
          Append(engine_calls,
                 [call |-> "run_service_on_network", service |-> s,
                  name |-> container_name_prefix(<< connected[s].name >>),
                  arg |-> connected[s].image])
    /\ actions' = [actions EXCEPT ![s] = Append(@, PRE_START)]
    /\ calls' = [calls EXCEPT ![s] =
                    @ \o << "pre_start", "run_service_on_network" >>]
    /\ pc' = [pc EXCEPT ![s] = "created"]
    /\ load_pc' = "run_image"
    /\ service_name' = s
    /\ UNCHANGED << buildFrame, connected, raised, exception >>

BuildNext ==
    \E s \in 1..2 : BuildOrSkip(s) \/ QueryExisting(s) \/ CreateFromImage(s)

BuildSpec == BuildInit /\ [][BuildNext]_vars

----------------------------------------------------------------------------
\* ServiceAgent.ping() with its clock.  Time is counted in ticks of 50 ms.

\* time.sleep(0.1), in ticks
SleepTicks == 2

\* The largest options.timeout, in ticks.
MaxTimeout == 5

\* The longest time, in ticks, service.ping() takes, and the longest that
\* time.sleep sleeps over its 100 ms.
MaxDelay == 1

\* the test of the while loop admitting the deadline itself
BelowOrAt(elapsed, seconds) == elapsed <= seconds

\* the test of the while loop of ping()
Below(elapsed, seconds) == elapsed < seconds

\* One agent whose container was created and started (run_image before its
\* call of ping), with any options.timeout.
PingInit ==
    /\ options \in [timeout : 0..MaxTimeout]
    /\ monotonic \in [now : 0..MaxDelay, start : {0}, elapsed : {0}]
    /\ run = "start_all"
    /\ remove = FALSE
    /\ dependencies = << {} >>
    /\ detailed = 0
    /\ agent_set = {1}
    /\ processed_services = << >>
    /\ failed_services = << >>
    /\ service_pop_lock = 0
    /\ lock_calls = << [service_failed |-> 0, service_done |-> 0] >>
    /\ status = << IN_PROGRESS >>
    /\ state = << STARTED >>
    /\ actions = << << PRE_START, START >> >>
    /\ open_dependencies = << << >> >>
    /\ open_dependants = << << >> >>
    /\ pc = << "ping" >>
    /\ ret = << "none" >>
    /\ frames = << << >> >>
    /\ pings = << 0 >>
    /\ containers = << << Container("running", "new") >> >>
    /\ existing_seen = << << >> >>
    /\ reuse_case = << << >> >>
    /\ calls = << << "pre_start", "run_service_on_network" >> >>
    /\ raised = << FALSE >>
    /\ driver = "loop"
    /\ result = << >>
    /\ network_removed = FALSE
    /\ action = << START >>
    /\ definitions = << >>
    /\ connected = << >>
    /\ context = << >>
    /\ files = << >>
    /\ saved = << >>
    /\ on_network = << >>
    /\ engine_calls = << >>
    /\ services = << << >> >>
    /\ collection = << 1 >>
    /\ excluded = << >>
    /\ service_name = 1
    /\ exception = "none"
    /\ stop_agents = {}
    /\ start_agents = {1}
    /\ load_pc = "run_image"

pingFrame ==
    << run, remove, dependencies, detailed, ctxVars, driverVars, status, ret,
       frames, containers, existing_seen, reuse_case, definitions, connected,
       context, files, saved, options, on_network, engine_calls, services,
       collection, excluded, service_name, stop_agents, start_agents >>

\* start = time.monotonic()
PingEnter(s) ==
    /\ pc[s] = "ping"
    /\ monotonic' = [monotonic EXCEPT !.start = monotonic.now]
    /\ pc' = [pc EXCEPT ![s] = "ping_test"]
    /\ load_pc' = "ping"
    /\ UNCHANGED << pingFrame, condVars, calls, pings, raised, exception >>

\* while time.monotonic() - start < self.options.timeout; return False
PingTest(s) ==
    /\ pc[s] = "ping_test"
    /\ monotonic' = [monotonic EXCEPT
                        !.elapsed = monotonic.now - monotonic.start]
    /\ pc' = [pc EXCEPT ![s] =
                 IF Below(monotonic.now - monotonic.start, options.timeout)
                   THEN "ping_call" ELSE "ping_false"]
    /\ UNCHANGED << pingFrame, condVars, calls, pings, raised, exception,
                    load_pc >>

\* if self.service.ping(): self.run_condition.pinged(); return True
PingCall(s) ==
    /\ pc[s] = "ping_call"
    /\ calls' = [calls EXCEPT ![s] = Append(@, "ping")]
    /\ \E d \in 0..MaxDelay :
          monotonic' = [monotonic EXCEPT !.now = @ + d]
    /\ \/ /\ actions' = [actions EXCEPT ![s] = Append(@, PING)]
          /\ state' = [state EXCEPT ![s] = RUNNING]
          /\ pc' = [pc EXCEPT ![s] = "ping_true"]
          /\ UNCHANGED << pings, raised, exception >>
       \/ /\ pings' = [pings EXCEPT ![s] = @ + 1]
          /\ pc' = [pc EXCEPT ![s] = "ping_sleep"]
          /\ UNCHANGED << condVars, raised, exception >>
       \/ /\ raised' = [raised EXCEPT ![s] = TRUE]
          /\ exception' = "Exception"
          /\ pc' = [pc EXCEPT ![s] = "ping_raised"]
          /\ UNCHANGED << condVars, pings >>
    /\ UNCHANGED << pingFrame, load_pc >>

\* time.sleep(0.1): the thread sleeps 100 ms at least
PingSleep(s) ==
    /\ pc[s] = "ping_sleep"
    /\ calls' = [calls EXCEPT ![s] = Append(@, "sleep")]
    /\ \E d \in 0..MaxDelay :
          monotonic' = [monotonic EXCEPT !.now = @ + SleepTicks + d]
    /\ pc' = [pc EXCEPT ![s] = "ping_test"]
    /\ UNCHANGED << pingFrame, condVars, pings, raised, exception, load_pc >>

PingNext == PingEnter(1) \/ PingTest(1) \/ PingCall(1) \/ PingSleep(1)

PingSpec == PingInit /\ [][PingNext]_vars

----------------------------------------------------------------------------
\* Properties

RECURSIVE TransitiveDeps(_)
TransitiveDeps(s) ==
    dependencies[s] \cup UNION {TransitiveDeps(d) : d \in dependencies[s]}

Ended(s) == pc[s] \in {"done", "dead"}

\* The status of the container _start_existing looks at: existings[0].
FirstSeen(s) ==
    IF existing_seen[s] = << >> THEN "none" ELSE existing_seen[s][1]

\* C1: in a start_all run, a service is appended to processed_services only
\* after every one of its dependencies was appended.
C1_StartOrder ==
    run = "start_all" =>
        \A i \in 1..Len(processed_services) :
            \A b \in dependencies[processed_services[i]] :
                \E j \in 1..(i - 1) : processed_services[j] = b

\* every service of the diamond was started
C1_Witness ==
    /\ run = "start_all"
    /\ driver = "returned"
    /\ Len(dependencies) = 4
    /\ Len(processed_services) = 4
    /\ dependencies[4] = {2, 3}

\* C2: once the thread of a failed service has ended, every service that
\* transitively depends on it is in failed_services and not pending, has no
\* thread and has made no engine call.
C2_FailClosure ==
    run = "start_all" =>
        \A s \in Registry :
            (Contains(failed_services, s) /\ Ended(s)) =>
                \A x \in Registry :
                    s \in TransitiveDeps(x) =>
                        /\ Contains(failed_services, x)
                        /\ x \notin agent_set
                        /\ pc[x] = "idle"
                        /\ calls[x] = << >>

\* C3: the loop of start_all can always come to an end: while services are
\* pending, some pending agent is ready to start or some agent thread is
\* still running.
C3_LoopCanEnd ==
    (run = "start_all" /\ driver = "loop" /\ ~done) =>
        \/ ready_to_start # {}
        \/ \E s \in Registry : pc[s] \notin {"idle", "done", "dead"}

C5_StartAfterDependencies ==
    run = "start_all" =>
        \A a \in Registry :
            pc[a] # "idle" =>
                \A b \in dependencies[a] :
                    /\ pc[b] = "done"
                    /\ state[b] = RUNNING
                    /\ status[b] = STARTED
                    /\ Contains(processed_services, b)
                    /\ \/ Contains(actions[b], POST_START)
                       \/ FirstSeen(b) \in {"running", "exited"}

\* a dependant is at work after its dependency reused a running container
C5_Witness ==
    /\ run = "start_all"
    /\ \E a \in Registry :
          /\ pc[a] = "create"
          /\ \E b \in dependencies[a] : FirstSeen(b) = "running"

\* C6: when a step of a START action raised or timed out, the agent ends
\* with run-condition state FAILED and status FAILED and its service is in
\* failed_services.
C6_FailureRecorded ==
    \A s \in Registry :
        (raised[s] /\ Ended(s)) =>
            /\ state[s] = FAILED
            /\ status[s] = FAILED
            /\ Contains(failed_services, s)

\* C7: an agent that ends failed with a START entry in its trace has left
\* no container with its prefix on the network.
C7_CleanupOnFail ==
    \A s \in Registry :
        (Ended(s) /\ state[s] = FAILED /\ Contains(actions[s], START)) =>
            containers[s] = << >>

\* C8: the value start_all returns names no service that is in
\* failed_services and only services whose agent has status STARTED.
C8_ResultIsStarted ==
    (run = "start_all" /\ driver = "returned") =>
        \A i \in 1..Len(result) :
            /\ ~Contains(failed_services, result[i])
            /\ status[result[i]] = STARTED

\* C9: when start_all has returned, every agent has status STARTED or
\* FAILED, and FAILED if its service is in failed_services.
C9_TerminalStatus ==
    (run = "start_all" /\ driver = "returned") =>
        \A s \in Registry :
            /\ status[s] \in {STARTED, FAILED}
            /\ Contains(failed_services, s) => status[s] = FAILED

\* C10 as stated: an agent to which the engine reported a running container
\* with its prefix makes none of the calls run_service_on_network,
\* run_container, pre_start, ping, post_start, and ends with status STARTED
\* and its service in processed_services.
C10_ReuseAnyRunning ==
    \A s \in Registry :
        Contains(existing_seen[s], "running") =>
            /\ \A i \in 1..Len(calls[s]) : calls[s][i] = "build_image"
            /\ Ended(s) =>
                  /\ pc[s] = "done"
                  /\ status[s] = STARTED
                  /\ Contains(processed_services, s)

\* C10 amended: an agent to which the engine reported a running container
\* first (the container _start_existing looks at) makes none of the calls
\* run_service_on_network, run_container, pre_start, ping, post_start, and
\* ends with status STARTED and its service in processed_services.
C10_ReuseRunning ==
    \A s \in Registry :
        FirstSeen(s) = "running" =>
            /\ \A i \in 1..Len(calls[s]) : calls[s][i] = "build_image"
            /\ Ended(s) =>
                  /\ pc[s] = "done"
                  /\ status[s] = STARTED
                  /\ Contains(processed_services, s)

\* an agent that found a running container, and an exited one after it,
\* has ended
C10_Witness ==
    \E s \in Registry :
        /\ existing_seen[s] = << "running", "exited" >>
        /\ Ended(s)

Count(seq, x) == Cardinality({i \in 1..Len(seq) : seq[i] = x})

\* the agent of s restarted the exited container it found
Restarted(s) == Contains(calls[s], "run_container")

\* the agent of s created a new container
Created(s) == Contains(calls[s], "run_service_on_network")

\* C11: when the first container found is exited, a new container is created
\* if always_start_new is set, or the image is not among the container's
\* tags, or some key of the service's env has, as a string, another value than
\* the container has for it, and then the old container is not restarted;
\* otherwise the old container is restarted and no new one is created.
C11_EnvDiff ==
    \A s \in Registry :
        reuse_case[s] # << >> =>
            LET case == reuse_case[s][1]
                differs ==
                    \E key \in DOMAIN case.env :
                        \/ key \notin DOMAIN case.existing_env
                        \/ case.env[key].text # case.existing_env[key]
                start_new == \/ case.always_start_new
                             \/ ~case.image_in_tags
                             \/ differs
            IN  /\ start_new => ~Restarted(s)
                /\ (start_new /\ Ended(s) /\ ~raised[s]) => Created(s)
                /\ ~start_new => Restarted(s) /\ ~Created(s)

\* C12: an agent that restarted an exited container calls neither pre_start
\* nor post_start and creates no container; it pings unless the restart
\* raised; when the restart or the ping failed it ends with status FAILED and
\* its service once in failed_services.
C12_RestartPath ==
    \A s \in Registry :
        Restarted(s) =>
            /\ ~Contains(calls[s], "pre_start")
            /\ ~Contains(calls[s], "post_start")
            /\ ~Created(s)
            /\ (Ended(s) /\ ~raised[s]) => Contains(calls[s], "ping")
            /\ (Ended(s) /\ raised[s]) =>
                  /\ status[s] = FAILED
                  /\ Count(failed_services, s) = 1

\* C13: in the trace of a run condition no START stands before a PRE-START,
\* no PING stands before a START, and every POST-START has a PING before it.
C13_TraceOrder ==
    \A s \in Registry :
        \A i, j \in 1..Len(actions[s]) :
            /\ (i < j /\ actions[s][j] = PRE_START) => actions[s][i] # START
            /\ (i < j /\ actions[s][j] = START) => actions[s][i] # PING
            /\ actions[s][j] = POST_START =>
                  \E k \in 1..(j - 1) : actions[s][k] = PING

\* C14: the status of an agent changes from NULL to IN-PROGRESS and from
\* IN-PROGRESS to STARTED, FAILED or STOPPED, and in no other way.
C14_StatusMonotonic ==
    [][\A s \in Registry :
          status'[s] # status[s] =>
              \/ status[s] = NULL /\ status'[s] = IN_PROGRESS
              \/ /\ status[s] = IN_PROGRESS
                 /\ status'[s] \in {STARTED, FAILED, STOPPED}]_vars

\* the thread of the agent of s is running its action
InProgress(s) == pc[s] \notin {"idle", "done", "dead"}

\* C18: in start_all a service is not in progress while a service it
\* transitively depends on is pending or in progress, and a pass of the
\* driver's loop spawns the agent of every service that is ready.
C18_Concurrency ==
    /\ [](run = "start_all" =>
            \A a \in Registry :
                InProgress(a) =>
                    \A b \in TransitiveDeps(a) :
                        b \notin agent_set /\ ~InProgress(b))
    /\ [][(/\ run = "start_all"
           /\ driver = "loop"
           /\ \/ driver' = "crashed"
              \/ \E s \in Registry : pc[s] = "idle" /\ pc'[s] = "spawned") =>
            \A s \in ready_to_start :
                pc[s] = "idle" => pc'[s] = "spawned"]_vars

\* C19: agent_set, processed_services and failed_services change only in a
\* step of the thread that holds service_pop_lock; for a service in
\* processed_services the lock was taken once by service_started or
\* service_stopped, for a service in failed_services once by service_failed.
C19_LockDiscipline ==
    /\ [][(\/ agent_set' # agent_set
           \/ processed_services' # processed_services
           \/ failed_services' # failed_services) =>
            \/ service_pop_lock = 0 /\ service_pop_lock' # 0
            \/ service_pop_lock # 0 /\ service_pop_lock' = 0]_vars
    /\ [](\A s \in Registry :
            /\ Contains(processed_services, s) =>
                  lock_calls[s].service_done = 1
            /\ Contains(failed_services, s) =>
                  lock_calls[s].service_failed = 1)

\* the services reached from the services of S along dependencies
RECURSIVE ReachFrom(_, _)
ReachFrom(svcs, S) ==
    LET next == S \cup UNION {Range(svcs[x]) : x \in S}
    IN  IF next = S THEN S ELSE ReachFrom(svcs, next)

\* the services a transitively depends on
DependsOn(svcs, a) == ReachFrom(svcs, Range(svcs[a]))

HasCycle(svcs) == \E a \in 1..Len(svcs) : a \in DependsOn(svcs, a)

\* the base service and the services that transitively depend on it
Scope(svcs, name) ==
    {name} \cup {a \in 1..Len(svcs) : name \in DependsOn(svcs, a)}

\* C15: load_definitions returns only for a registry without a cycle.
C15_CycleRejected ==
    Loaded => ~HasCycle(services)

C17_ReloadScope ==
    (load_pc = "reload_service" /\ exception = "none") =>
        /\ stop_agents \subseteq Scope(services, service_name)
        /\ start_agents \subseteq Scope(services, service_name)

\* C20: exclude_for_start(E) raises ServiceLoadError when a name of E is not
\* registered or a service outside E depends on a service of E; otherwise it
\* raises nothing and leaves the services not named in E, whose dependencies
\* are all left.
C20_ExcludeForStart ==
    load_pc = "exclude_for_start" =>
        LET names == 1..Len(services)
            E == Range(excluded)
            refused ==
                \/ \E e \in E : e \notin names
                \/ \E s \in names \ E : Range(services[s]) \cap E # {}
        IN  /\ refused => exception = "ServiceLoadError"
            /\ ~refused =>
                  /\ exception = "none"
                  /\ Range(collection) = names \ E
                  /\ \A s \in Range(collection) :
                        Range(services[s]) \subseteq Range(collection)

\* C21: exclude_for_stop(E) raises ServiceLoadError when a service of E has
\* a dependency outside E; otherwise it raises nothing and leaves the
\* services not named in E, none of which has a dependant named in E.
C21_ExcludeForStop ==
    load_pc = "exclude_for_stop" =>
        LET names == 1..Len(services)
            E == Range(excluded)
            refused ==
                \E e \in E \cap names : ~(Range(services[e]) \subseteq E)
        IN  /\ refused => exception = "ServiceLoadError"
            /\ ~refused =>
                  /\ exception = "none"
                  /\ Range(collection) = names \ E
                  /\ \A s \in Range(collection) :
                        \A e \in E \cap names : s \notin Range(services[e])

C23_StopAlwaysStopped ==
    run = "stop_all" =>
        \A s \in Registry :
            /\ lock_calls[s].service_failed = 0
            /\ Ended(s) => /\ status[s] = STOPPED
                           /\ lock_calls[s].service_done = 1
                           /\ Contains(processed_services, s)

C25_WithoutAction ==
    /\ [](\A s \in Registry :
             /\ action[s] \in {None, START, STOP}
             /\ (load_pc = "run" /\ service_name = s) =>
                   /\ status[s] = FAILED
                   /\ lock_calls[s].service_failed = 1
                   /\ Count(failed_services, s) = 1
                   /\ calls[s] = << >>
                   /\ exception = "ServiceAgentException")
    /\ [][(load_pc' = "action" /\ exception' = "ServiceAgentException")
             => action' = action]_vars

\* C26: load_from(d) on an empty context, after save_to(d), gives the
\* context the keys and values that were saved; load_from and remove_file on
\* a directory without a context file raise nothing and leave the context
\* as it is.
C26_RoundTrip ==
    [][/\ (load_pc' = "load_from" /\ context = NoContext
             /\ files[service_name'].exists)
          => context' = saved[service_name']
       /\ (load_pc' \in {"load_from", "remove_file"}
             /\ ~files[service_name'].exists)
          => /\ exception' = "none"
             /\ context' = context
             /\ files' = files]_vars

\* a saved context with an int and a string of the same digits was loaded
\* into an empty context
C26_Witness ==
    /\ load_pc = "load_from"
    /\ files[service_name].exists
    /\ context = saved[service_name]
    /\ DOMAIN context = ContextKeys
    /\ context["blah"] = [type |-> "int", v |-> "123"]
    /\ context["yada"] = [type |-> "str", v |-> "123"]

\* the services an agent thread can stand for
Agents == UNION {DOMAIN sc.deps : sc \in Scenarios}

\* the thread of t has asked for service_pop_lock and does not have it yet
Waits(t) ==
    /\ t \in Registry
    /\ \/ pc[t] = "service_failed" /\ Top(t).stage = "lock"
       \/ pc[t] \in {"service_started", "service_stopped"}

\* C27: service_failed does not deadlock: a thread that asks for
\* service_pop_lock never holds it already, in particular not in a recursive
\* call of service_failed, and every thread that asks for the lock obtains
\* it, whatever the other threads do in service_started and service_failed.
C27_NoDeadlock ==
    /\ [](\A t \in Registry : Waits(t) => service_pop_lock # t)
    /\ \A t \in Agents : [](Waits(t) => <>(~Waits(t)))

\* a thread waits in a recursive call of service_failed while another
\* thread holds the lock in service_started
C27_Witness ==
    \E t, h \in Registry :
        /\ t # h
        /\ pc[t] = "service_failed"
        /\ Len(frames[t]) >= 2
        /\ Top(t).stage = "lock"
        /\ service_pop_lock = h
        /\ pc[h] = "append"

\* C28: whenever service_pop_lock is free, the open_dependencies of every
\* pending agent of a start run are its service's dependencies without the
\* processed services, so that the agent is in ready_to_start exactly when
\* its status is NULL and every dependency is processed; in a stop run the
\* same holds of open_dependants, the dependants and ready_to_stop.
C28_OpenDependencies ==
    service_pop_lock = 0 =>
        \A s \in agent_set :
            /\ run = "start_all" =>
                  /\ Range(open_dependencies[s])
                       = dependencies[s] \ Range(processed_services)
                  /\ s \in ready_to_start
                       <=> /\ status[s] = NULL
                           /\ dependencies[s]
                                \subseteq Range(processed_services)
            /\ run = "stop_all" =>
                  /\ Range(open_dependants[s])
                       = dependants(s) \ Range(processed_services)
                  /\ s \in ready_to_stop
                       <=> /\ status[s] = NULL
                           /\ dependants(s)
                                \subseteq Range(processed_services)

\* C29: the cascade of service_failed takes a service out of the pending set
\* at most once and raises no error, whatever the registry and whichever
\* services fail at the same time.  In the start runs in which no service
\* has a container beforehand, so that a service fails by its ping alone:
\* service_failed is called once at most for a service, no service is twice
\* in failed_services, no thread ends with an exception other than the one
\* of its ping, and when the cascade of a failed service has returned, every
\* service that depends on it, directly or through others, is failed.
C29_CascadeOnce ==
    (run = "start_all" /\ detailed = 0) =>
        /\ \A s \in Registry :
              /\ lock_calls[s].service_failed <= 1
              /\ Count(failed_services, s) <= 1
              /\ pc[s] # "dead"
        /\ \A s \in Registry :
              (status[s] = FAILED /\ pc[s] \in {"cleanup", "finish", "done"})
                => \A x \in Registry :
                      s \in TransitiveDeps(x) =>
                          /\ x \notin agent_set
                          /\ service_pop_lock = 0 =>
                                Contains(failed_services, x)

\* the pending set, processed_services and failed_services are pairwise
\* disjoint, hold no service twice and hold together the services of the
\* registry
Partition ==
    /\ \A s \in Registry :
          Count(processed_services, s) + Count(failed_services, s)
            + (IF s \in agent_set THEN 1 ELSE 0) = 1
    /\ agent_set \cup Range(processed_services) \cup Range(failed_services)
         = Registry

\* C30 as stated: in every state of a run the three collections are a
\* partition of the registry.
C30_PartitionAlways == Partition

\* C30: in every state of a run in which service_pop_lock is free, the
\* pending set, processed_services and failed_services are pairwise
\* disjoint, without a repeated service, and together the registry; in
\* every state no service is both processed and failed, and a service that
\* is in none of the three is the one the holder of the lock has taken out
\* of the pending set.
C30_Partition ==
    /\ service_pop_lock = 0 => Partition
    /\ \A s \in Registry :
          /\ Count(processed_services, s) + Count(failed_services, s)
               + (IF s \in agent_set THEN 1 ELSE 0) <= 1
          /\ (s \notin agent_set /\ ~Contains(processed_services, s)
                /\ ~Contains(failed_services, s))
               => service_pop_lock # 0

\* a run with pending, processed and failed services at once, the lock free
C30_Witness ==
    /\ service_pop_lock = 0
    /\ agent_set # {}
    /\ processed_services # << >>
    /\ failed_services # << >>

\* C31: an agent whose thread has run to its end has reported one outcome to
\* the running context, once: the calls of service_started, service_stopped
\* and service_failed made for its service are one call in all.
C31_OneOutcome ==
    \A s \in Registry :
        Ended(s) =>
            lock_calls[s].service_failed + lock_calls[s].service_done = 1

\* C32: the driver calls start_service or stop_service once at most on an
\* agent: no pass of its loop finds ready an agent whose thread it has
\* started, so Thread.start() never raises.
C32_StartedOnce == driver # "crashed"

\* nothing more happens in the run: no thread is running, and the driver has
\* returned, or has raised, or polls without an agent to start
Quiescent ==
    /\ \A s \in Registry : pc[s] \in {"idle", "done", "dead"}
    /\ \/ driver \in {"returned", "crashed"}
       \/ driver = "loop" /\ ~LoopEnds /\ Ready = {}

\* C33: in start_all a service that was started, so that neither its own
\* START action nor one of the services it depends on has failed, comes to
\* be in the result of start_all whatever other services fail: the run does
\* not come to rest without start_all having returned it.
C33_FailureConfined ==
    (run = "start_all" /\ Quiescent) =>
        \A s \in Registry :
            (status[s] = STARTED /\ Contains(processed_services, s)) =>
                /\ driver = "returned"
                /\ Contains(result, s)

\* C34: stop_all returns, with every service of the run in
\* processed_services: the run does not come to rest with the driver in its
\* loop or with an exception out of stop_all, and no service is left waiting
\* for a dependant.
C34_StopAllReturns ==
    (run = "stop_all" /\ Quiescent) =>
        /\ driver = "returned"
        /\ \A s \in Registry : Contains(processed_services, s)

\* entry j of the engine's log is a call of the STOP action that asked the
\* engine in entry i
OfQuery(i, j) ==
    /\ i < j
    /\ j <= Len(engine_calls)
    /\ \A k \in (i + 1)..j : engine_calls[k].call # "existing_on_network"

\* the entries of the STOP action of entry i that are the given call on the
\* container e
CallsOn(i, call, e) ==
    {j \in 1..Len(engine_calls) :
        /\ OfQuery(i, j)
        /\ engine_calls[j].call = call
        /\ engine_calls[j].name = e.name}

\* a STOP action stops, with options.timeout, the containers it finds
\* running and no other, removes them exactly when options.remove is set,
\* and removes a container after it has stopped it
StopsWhatItFinds ==
    \A i \in 1..Len(engine_calls) :
        engine_calls[i].call = "existing_on_network" =>
            \A n \in 1..Len(engine_calls[i].arg) :
                LET e == engine_calls[i].arg[n]
                IN  /\ Cardinality(CallsOn(i, "stop", e))
                          = (IF e.status = "running" THEN 1 ELSE 0)
                    /\ \A j \in CallsOn(i, "stop", e) :
                          engine_calls[j].arg = options.timeout
                    /\ Cardinality(CallsOn(i, "remove", e))
                          = (IF options.remove THEN 1 ELSE 0)
                    /\ \A j \in CallsOn(i, "stop", e),
                          k \in CallsOn(i, "remove", e) : j < k

\* C35: in a STOP action every container found under the service's name
\* prefix is stopped, with options.timeout, exactly when it is running, and
\* removed exactly when options.remove is set, after the stop; no container
\* of a service excluded from the stop is stopped or removed.
C35_StopAction ==
    /\ StopsWhatItFinds
    /\ \A j \in 1..Len(engine_calls) :
          engine_calls[j].call \in {"stop", "remove"} =>
              ~Contains(excluded, engine_calls[j].service)

\* the first place of a call in the engine's log made for service s, or
\* one past its end
FirstCall(s, call) ==
    LET at == {i \in 1..Len(engine_calls) :
                  engine_calls[i].service = s /\ engine_calls[i].call = call}
    IN  IF at = {} THEN Len(engine_calls) + 1
        ELSE CHOOSE i \in at : \A j \in at : i <= j

\* the start_container of s has decided about the build
Decided(s) == pc[s] # "start_container"

\* s is named in options.build, or has a build directory and an image
\* ending in ':latest'
BuildAskedFor(s) ==
    \/ definitions[s].name \in options.build
    \/ /\ definitions[s].build_from # None
       /\ definitions[s].image[Len(definitions[s].image)] = ":latest"

\* the image was built: its tag is the service's image and what a container
\* is created from, BUILD-IMAGE is in the trace, and the build was the first
\* call made to the engine
Built(s) ==
    /\ Contains(actions[s], BUILD_IMAGE)
    /\ connected[s].image = image_tag(definitions[s].name)
    /\ FirstCall(s, "build_image") = 1 + Len(SelectSeq(SubSeq(engine_calls, 1,
                                         FirstCall(s, "build_image") - 1),
                                         LAMBDA c : c.service # s))
    /\ FirstCall(s, "build_image") < FirstCall(s, "existing_on_network")
    /\ FirstCall(s, "build_image") < FirstCall(s, "run_service_on_network")
    /\ \A i \in 1..Len(engine_calls) :
          (engine_calls[i].service = s
             /\ engine_calls[i].call = "run_service_on_network")
            => engine_calls[i].arg = image_tag(definitions[s].name)

\* no image was built: the service keeps its image, the trace has no
\* BUILD-IMAGE
NotBuilt(s) ==
    /\ ~Contains(actions[s], BUILD_IMAGE)
    /\ connected[s].image = definitions[s].image

PingCalls(s) ==
    Len(SelectSeq(calls[s], LAMBDA c : c = "ping"))

\* ceil(timeout / 0.1), the timeout in ticks
PollBound == (options.timeout + SleepTicks - 1) \div SleepTicks

\* C37: ping() calls service.ping() only after finding the elapsed time
\* below options.timeout, sleeps after every attempt that was not true,
\* returns True at the first true result with PING and RUNNING recorded,
\* returns False only when the elapsed time has reached options.timeout,
\* and calls service.ping() ceil(timeout / 0.1) times at most.
C37_Polling ==
    /\ pc[1] = "ping_call" => monotonic.elapsed < options.timeout
    /\ \A i \in 1..(Len(calls[1]) - 1) :
          calls[1][i] = "ping" => calls[1][i + 1] = "sleep"
    /\ pc[1] = "ping_sleep" <=>
          (Len(calls[1]) > 0 /\ calls[1][Len(calls[1])] = "ping"
             /\ pc[1] \notin {"ping_true", "ping_raised"})
    /\ pc[1] = "ping_true" =>
          /\ actions[1][Len(actions[1])] = PING
          /\ state[1] = RUNNING
          /\ PingCalls(1) = pings[1] + 1
    /\ pc[1] # "ping_true" =>
          /\ ~Contains(actions[1], PING)
          /\ state[1] = STARTED
    /\ pc[1] = "ping_false" =>
          /\ monotonic.elapsed >= options.timeout
          /\ monotonic.now - monotonic.start >= options.timeout
          /\ PingCalls(1) = pings[1]
    /\ PingCalls(1) <= PollBound

\* ping() has returned False after as many calls as the bound allows, three
\* of them, with a timeout that is no multiple of 100 ms
C37_Witness ==
    /\ pc[1] = "ping_false"
    /\ options.timeout % SleepTicks # 0
    /\ PingCalls(1) = PollBound
    /\ PingCalls(1) = 3

\* C38: load_definitions raises no ServiceLoadError for a registry without a
\* cycle, whether or not a traversal of check_circular_dependencies uses up
\* its count.
C38_AcyclicAccepted ==
    (load_pc = "load_definitions" /\ ~HasCycle(services)) =>
        exception = "none"

\* load_definitions has returned for the diamond, which has no cycle and
\* more paths than services: the traversal from its last service stops at
\* the count of four
C38_Witness ==
    /\ Loaded
    /\ services = << << >>, << 1 >>, << 1 >>, << 2, 3 >> >>
    /\ ~HasCycle(services)
    /\ go_up_dependencies(services, Len(services), 4, 4, 0).count
          = Len(services)
    /\ ~go_up_dependencies(services, Len(services), 4, 4, 0).raised

\* C39: the network is removed only when every service of the loaded
\* registry was stopped by the stop_all that removes it; a reload_service
\* with remove set, which stops the base service and its dependants, leaves
\* the network when other services are defined.
C39_NetworkOfAll ==
    (load_pc = "reload_service" /\ network_removed) =>
        stop_agents = 1..Len(services)

\* C40: an exclusion that raises leaves the registry as load_definitions
\* made it: no service has been removed from all_by_name.
C40_RejectedUnchanged ==
    (load_pc \in {"exclude_for_start", "exclude_for_stop"}
       /\ exception # "none") =>
        collection = connect_services(services)

====
